---- MODULE Spec2Model ----
(***************************************************************************)
(* Model of the scraping core of nongbu-claude-scraper:                    *)
(*   - AdvancedScraper (src/advanced_scraper.py): multi-method body        *)
(*     extraction, relevance filter, dedup gate, target orchestration;     *)
(*   - ContentScraper (src/src/xtweet/scraper.py): scrape_target and       *)
(*     _save_content;                                                      *)
(*   - the scraped_contents table (src/src/xtweet/models.py).              *)
(* Python str values are TLA+ strings; len, slicing and concatenation are  *)
(* Len, SubSeq and \o.                                                     *)
(***************************************************************************)
EXTENDS Integers, Sequences, FiniteSets, TLC

(***************************************************************************)
(* Text primitives                                                         *)
(***************************************************************************)

\* s[i:i+1] of Python, 1-based.
CharAt(s, i) == SubSeq(s, i, i)

\* s.startswith(k, i-1): k occurs in s at position i.
HasAt(k, s, i) == /\ i + Len(k) - 1 <= Len(s)
                  /\ SubSeq(s, i, i + Len(k) - 1) = k

\* Python's `k in s` for strings.
IsSubstr(k, s) == \E i \in 1..(Len(s) - Len(k) + 1) : HasAt(k, s, i)

UpperChars == "ABCDEFGHIJKLMNOPQRSTUVWXYZ"
LowerChars == "abcdefghijklmnopqrstuvwxyz"

LowerChar(c) ==
  IF \E i \in 1..Len(UpperChars) : CharAt(UpperChars, i) = c
  THEN CharAt(LowerChars, CHOOSE i \in 1..Len(UpperChars) : CharAt(UpperChars, i) = c)
  ELSE c

\* str.lower(), character by character over s[lo..hi] (split in halves).
RECURSIVE LowerRange(_, _, _)
LowerRange(s, lo, hi) ==
  IF lo > hi THEN ""
  ELSE IF lo = hi THEN LowerChar(CharAt(s, lo))
  ELSE LET mid == (lo + hi) \div 2
       IN  LowerRange(s, lo, mid) \o LowerRange(s, mid + 1, hi)
Lower(s) == LowerRange(s, 1, Len(s))

\* s * n of Python.
RECURSIVE Rep(_, _)
Rep(s, n) ==
  IF n <= 0 THEN ""
  ELSE LET h == Rep(s, n \div 2)
       IN  h \o h \o (IF n % 2 = 1 THEN s ELSE "")

\* s followed by filler up to n characters in all.
Fill(s, n) == s \o Rep("z", n - Len(s))

\* \d and \s over the characters the modelled texts are made of.
Min(a, b) == IF a < b THEN a ELSE b

Digits == {"0", "1", "2", "3", "4", "5", "6", "7", "8", "9"}
Whitespace == {" ", "\n", "\t"}

(***************************************************************************)
(* Regular expressions as used by re.search.  A pattern is a sequence of   *)
(* items: a literal, a character class repeated min..max times (max = -1:  *)
(* unbounded), or an optional group of alternative sub-patterns.           *)
(***************************************************************************)
Lit(s) == [k |-> "lit", s |-> s]
Cls(set, min, max) == [k |-> "cls", set |-> set, min |-> min, max |-> max]
Opt(alts) == [k |-> "opt", alts |-> alts]

RECURSIVE MatchAt(_, _, _)
MatchAt(pat, s, i) ==
  IF pat = <<>> THEN TRUE
  ELSE LET h == Head(pat)
           r == Tail(pat)
       IN  CASE h.k = "lit" -> HasAt(h.s, s, i) /\ MatchAt(r, s, i + Len(h.s))
             [] h.k = "cls" ->
                  LET avail == Len(s) - i + 1
                      hi == IF h.max < 0 \/ h.max > avail THEN avail ELSE h.max
                  IN  \E n \in h.min..hi :
                        /\ \A j \in 0..(n - 1) : CharAt(s, i + j) \in h.set
                        /\ MatchAt(r, s, i + n)
             [] h.k = "opt" ->
                  \/ \E a \in DOMAIN h.alts : MatchAt(h.alts[a] \o r, s, i)
                  \/ MatchAt(r, s, i)

\* re.search(pattern, text) is not None
re_search(pat, s) == \E i \in 1..(Len(s) + 1) : MatchAt(pat, s, i)

(***************************************************************************)
(* Relevance and quality filter: AdvancedScraper.is_relevant_content       *)
(***************************************************************************)

FINANCIAL_KEYWORDS ==
  << [category |-> "stocks",
      keywords |-> <<"stock", "shares", "equity", "market", "trading", "nasdaq", "dow", "s&p", "russell">>],
     [category |-> "companies",
      keywords |-> <<"apple", "tesla", "microsoft", "amazon", "google", "nvidia", "meta", "berkshire">>],
     [category |-> "crypto",
      keywords |-> <<"bitcoin", "cryptocurrency", "crypto", "ethereum", "blockchain", "defi">>],
     [category |-> "fed",
      keywords |-> <<"federal reserve", "fed", "powell", "interest rate", "monetary policy", "fomc">>],
     [category |-> "economy",
      keywords |-> <<"inflation", "gdp", "employment", "economic", "recession", "growth">>],
     [category |-> "earnings",
      keywords |-> <<"earnings", "revenue", "profit", "quarterly", "financial results">>],
     [category |-> "geopolitics",
      keywords |-> <<"trade war", "china", "tariff", "sanction", "oil", "energy">>] >>

blacklist_patterns ==
  << <<Lit("the associated press is an independent global news organization")>>,
     <<Lit("founded in "), Cls(Digits, 4, 4)>>,
     <<Lit("remains the most trusted source")>>,
     <<Lit("more than half the world's population sees")>>,
     <<Lit("essential provider of the technology")>>,
     <<Lit("vital to the news business")>>,
     <<Lit("subscribe to our newsletter")>>,
     <<Lit("follow us on social media")>>,
     <<Lit("contact us for more information")>>,
     <<Lit("copyright "), Cls(Digits, 4, 4)>>,
     <<Lit("all rights reserved")>>,
     <<Lit("privacy policy")>>,
     <<Lit("terms of service")>>,
     <<Lit("cookie policy")>>,
     <<Lit("home"), Cls(Whitespace, 1, -1), Lit("news"), Cls(Whitespace, 1, -1), Lit("business")>>,
     <<Lit("breaking news")>>,
     <<Lit("latest news")>>,
     <<Lit("trending now")>>,
     <<Lit("click here to")>>,
     <<Lit("read more about")>>,
     <<Lit("learn more at")>>,
     <<Lit("visit our website")>> >>

basic_financial_terms ==
  << "stock", "market", "price", "trade", "investment", "investor",
     "financial", "economy", "economic", "revenue", "profit", "loss",
     "nasdaq", "dow jones", "sp500", "wall street", "trading", "earnings",
     "billion", "million", "percent", "%", "shares", "ceo", "quarterly" >>

quality_patterns ==
  << \* \$\d+(?:\.\d+)?(?:\s*(?:billion|million|trillion))?
     <<Lit("$"), Cls(Digits, 1, -1), Opt(<< <<Lit("."), Cls(Digits, 1, -1)>> >>),
       Opt(<< <<Cls(Whitespace, 0, -1), Lit("billion")>>,
              <<Cls(Whitespace, 0, -1), Lit("million")>>,
              <<Cls(Whitespace, 0, -1), Lit("trillion")>> >>)>>,
     \* \d+(?:\.\d+)?%
     <<Cls(Digits, 1, -1), Opt(<< <<Lit("."), Cls(Digits, 1, -1)>> >>), Lit("%")>>,
     \* \d{4}-\d{2}-\d{2}
     <<Cls(Digits, 4, 4), Lit("-"), Cls(Digits, 2, 2), Lit("-"), Cls(Digits, 2, 2)>>,
     \* q[1-4]\s+\d{4}
     <<Lit("q"), Cls({"1", "2", "3", "4"}, 1, 1), Cls(Whitespace, 1, -1), Cls(Digits, 4, 4)>> >>

\* Minimum content length of the filter (len(content) < 300 rejects).
MinContentLen == 300
\* min_score
MinScore == 6

\* for x in xs[i:]: if x in text: score += w   (the loop, from index i on)
RECURSIVE CountTerms(_, _, _, _)
CountTerms(xs, text, w, i) ==
  IF i > Len(xs) THEN 0
  ELSE (IF IsSubstr(xs[i], text) THEN w ELSE 0) + CountTerms(xs, text, w, i + 1)

\* for category, keywords in FINANCIAL_KEYWORDS.items(): for keyword in keywords: ...
RECURSIVE CountKeywords(_, _)
CountKeywords(text, c) ==
  IF c > Len(FINANCIAL_KEYWORDS) THEN 0
  ELSE CountTerms(FINANCIAL_KEYWORDS[c].keywords, text, 1, 1) + CountKeywords(text, c + 1)

\* for pattern in patterns[i:]: if re.search(pattern, text): score += 1
RECURSIVE CountPatterns(_, _, _)
CountPatterns(pats, text, i) ==
  IF i > Len(pats) THEN 0
  ELSE (IF re_search(pats[i], text) THEN 1 ELSE 0) + CountPatterns(pats, text, i + 1)

BlacklistSkipped(text, i) == FALSE
\* The blacklist loop: the first matching pattern returns False.
RECURSIVE Blacklisted(_, _)
Blacklisted(text, i) ==
  IF i > Len(blacklist_patterns) THEN FALSE
  ELSE IF re_search(blacklist_patterns[i], text) THEN TRUE
  ELSE Blacklisted(text, i + 1)

FilterText(title, content) == Lower(title \o " " \o content)

relevance_score(text) == CountKeywords(text, 1) + CountTerms(basic_financial_terms, text, 1, 1)
title_score_unweighted(title) == CountTerms(basic_financial_terms, Lower(title), 1, 1)
title_score(title) == CountTerms(basic_financial_terms, Lower(title), 2, 1)
quality_score(text) == CountPatterns(quality_patterns, text, 1)

final_score(title, content) ==
  LET text == FilterText(title, content)
  IN  relevance_score(text) + title_score(title) + quality_score(text)

ScoreAcceptsAbove(score) == score > MinScore
\* `if final_score >= min_score`
ScoreAccepts(score) == score >= MinScore

TooShortCombined(title, content) == Len(title \o " " \o content) < MinContentLen
\* `if len(content) < 300`
TooShort(title, content) == Len(content) < MinContentLen

is_relevant_content(title, content) ==
  LET text == FilterText(title, content)
  IN  IF TooShort(title, content) THEN FALSE
      ELSE IF Blacklisted(text, 1) THEN FALSE
      ELSE ScoreAccepts(final_score(title, content))

(***************************************************************************)
(* Multi-method extraction: AdvancedScraper.extract_with_multiple_methods  *)
(***************************************************************************)

\* What one extraction method does on a URL: it raises, or it returns a
\* text ("" stands for None and for the empty string, both falsy).
Raised == [raised |-> TRUE, text |-> ""]
Returned(t) == [raised |-> FALSE, text |-> t]

Methods == 1..5
\* `if self.use_selenium and best_score < 500`
SeleniumThreshold == 500
\* `if best_score < 300`
FallbackThreshold == 300

TryBlocksButLast == {1, 2, 3, 4}
\* The methods whose body is wrapped in try / except Exception.
TryBlocks == {1, 2, 3, 4, 5}

AttemptedAlways(m, sel, score) == TRUE
AttemptedWithoutFlag(m, sel, score) ==
  CASE m = 4 -> score < SeleniumThreshold
    [] m = 5 -> score < FallbackThreshold
    [] OTHER -> TRUE
\* The condition under which method m is attempted.
Attempted(m, sel, score) ==
  CASE m = 4 -> sel /\ score < SeleniumThreshold
    [] m = 5 -> score < FallbackThreshold
    [] OTHER -> TRUE

ImprovesOrTies(t, score) == t # "" /\ Len(t) >= score
\* `if extracted and len(extracted) > best_score`
Improves(t, score) == t # "" /\ Len(t) > score

\* The whole call as a function of what the five methods do on the URL:
\* the best content after methods m..5, starting from (bc, bs).
RECURSIVE ExtractFrom(_, _, _, _, _)
ExtractFrom(m, outs, sel, bc, bs) ==
  IF m > 5 THEN bc
  ELSE IF Attempted(m, sel, bs) /\ ~outs[m].raised /\ Improves(outs[m].text, bs)
       THEN ExtractFrom(m + 1, outs, sel, outs[m].text, Len(outs[m].text))
       ELSE ExtractFrom(m + 1, outs, sel, bc, bs)
extract_with_multiple_methods(outs, sel) == ExtractFrom(1, outs, sel, "", 0)

\* Texts a method can return in the model: just below and at the fallback
\* threshold (two different texts of equal length) and at the Selenium one.
ExtractTexts ==
  { Rep("a", FallbackThreshold - 1), Rep("b", FallbackThreshold),
    Rep("c", FallbackThreshold), Rep("d", SeleniumThreshold) }
Outcomes == {Raised, Returned("")} \cup {Returned(t) : t \in ExtractTexts}

(***************************************************************************)
(* Fingerprints and the scraped_contents table                             *)
(***************************************************************************)

\* hashlib.sha256(s.encode('utf-8')).hexdigest(): a digest that determines
\* the hashed string (SHA-256 taken as collision free).
sha256(s) == [sha256 |-> s]

\* AdvancedScraper: content_hash over article_title + content.
AdvancedHash(title, content) == sha256(title \o content)
\* ContentScraper._save_content: content_hash over content_data['content'].
ContentHash(title, content) == sha256(content)

\* One row of scraped_contents; src is the target (index into Targets)
\* whose pass stored it.
Row(title, content, url, hash, by, target_id, src) ==
  [title |-> title, content |-> content, url |-> url, content_hash |-> hash, by |-> by,
   target_id |-> target_id, src |-> src]

\* The target_id AdvancedScraper writes: the literal 1.
DefaultTargetId == 1
\* target.id of the ScrapingTarget row of target t, a primary key.
TargetId(t) == t

CountNothing(rows, h) == 0
\* SELECT COUNT(*) FROM scraped_contents WHERE content_hash = ?
CountHash(rows, h) == Cardinality({i \in DOMAIN rows : rows[i].content_hash = h})

UniqueIgnored(rows, h) == FALSE
\* content_hash = Column(String(64), unique=True): an INSERT of h into rows
\* violates the UNIQUE constraint.
UniqueViolation(rows, h) == CountHash(rows, h) > 0

CommitLost(rows, written) == rows
CommitReplaces(rows, written) == written
\* conn.commit() / db.session.commit(): the rows written in the transaction
\* join the committed rows.
Committed(rows, written) == rows \o written

(***************************************************************************)
(* The sites                                                               *)
(***************************************************************************)

\* self.targets, in iteration order (two of the configured sites).
Targets == <<"NPR Business", "FINVIZ">>

\* `article_links[:3]`
MaxArticles == 3
\* `if not content or len(content) < 100`
MinExtractLen == 100

TitleRally == "Stocks rally as earnings beat"
TitleFed == "Fed signals rate pause"
TitleShares == "Stocks rally as earn"

\* Bodies the article pages carry.
RallyText == "stock market shares rose 3.5% as quarterly earnings and revenue beat; "
BodyRally == Fill(RallyText, MinContentLen)
\* With TitleShares, the same title + content as TitleRally with BodyRally.
BodyShifted == "ings beat" \o BodyRally
\* The same words, one character short of the minimum length.
BodyShort == Fill(RallyText, MinContentLen - 1)
\* Long enough, no financial signal.
BodyOffTopic == Fill("the garden club met on tuesday to plan the spring show; ", MinContentLen)
BodyTiny == "stock market update"

\* What the five methods do on each article URL.
OnlyFirst(t) == <<Returned(t), Raised, Returned(""), Returned(""), Returned("")>>
OnlyFallback(t) == <<Raised, Raised, Returned(""), Returned(""), Returned(t)>>
AllFail == <<Raised, Raised, Raised, Raised, Raised>>

\* The versions of each article page a fetch can meet.
PageVersions ==
  [ u1 |-> {OnlyFirst(BodyRally)},
    u2 |-> {OnlyFallback(BodyRally)},
    u3 |-> {OnlyFirst(BodyShort), AllFail},
    u4 |-> {OnlyFirst(BodyOffTopic)},
    u5 |-> {OnlyFirst(BodyShifted)},
    u6 |-> {OnlyFirst(BodyTiny)} ]

Link(title, url) == [title |-> title, url |-> url]

\* What fetching the landing page and _extract_article_links can give for
\* each target: the fetch raised, or the list of (title, url) found.
FetchFailed == [ok |-> FALSE, links |-> <<>>]
Fetched(links) == [ok |-> TRUE, links |-> links]
Landings ==
  [ t \in 1..Len(Targets) |->
      IF t = 1
      THEN { Fetched(<< Link(TitleRally, "u1"), Link(TitleFed, "u2"), Link(TitleFed, "u3"), Link(TitleFed, "u4") >>),
             Fetched(<< Link(TitleFed, "u4"), Link(TitleShares, "u5") >>),
             Fetched(<< >>) }
      ELSE { Fetched(<< Link(TitleFed, "u6"), Link(TitleRally, "u1") >>),
             FetchFailed } ]

\* What ContentScraper._extract_content can give for a target: it raised,
\* or the list of valid (title, content) items.
Item(title, content) == [title |-> title, content |-> content]
ExtractFailed == [ok |-> FALSE, items |-> <<>>]
Extracted(items) == [ok |-> TRUE, items |-> items]
Extractions ==
  { Extracted(<< Item(TitleRally, BodyRally), Item(TitleFed, BodyRally) >>),
    Extracted(<< >>),
    Extracted(<< Item(TitleRally, TitleRally \o BodyRally) >>),
    ExtractFailed }

(***************************************************************************)
(* State                                                                   *)
(***************************************************************************)
VARIABLES
  \* one call of extract_with_multiple_methods
  x_pc,            \* "idle", "running", "returned", "raised"
  method,          \* the method the call is at (6: past the last one)
  use_selenium,    \* self.use_selenium
  best_content,
  best_score,
  steps,           \* per method reached: was it run, what it did, best_score before
  x_result,        \* the returned string
  driver,          \* self.driver is not None
  created,         \* webdriver.Chrome instances constructed during the call
  \* one call of is_relevant_content
  flt_pc,          \* "idle", "length", "blacklist", "score", "done"
  flt_title,
  flt_content,
  flt_text,        \* text = (title + " " + content).lower()
  flt_score,       \* relevance_score, title_score, quality_score, final_score
  flt_result,      \* the returned bool
  \* one call of _extract_article_links
  lnk_pc,          \* "idle", "select", "dedup", "returned"
  lnk_page,        \* per selector, the elements soup.select gives
  lnk_sel,         \* the selector the loop is at
  lnk_i,           \* the element the inner loop is at
  lnk_links,       \* links
  lnk_result,      \* the returned unique_links
  \* one call of _extract_content_from_soup
  sp_pc,           \* "idle", "selectors", "paragraphs", "return", "returned"
  sp_texts,        \* the texts of the elements the content selectors match
  sp_paras,        \* the texts of the <p> elements
  sp_best_content,
  sp_best_length,
  sp_tried,        \* the paragraph branch was entered
  sp_result,       \* the returned string
  \* one scraper object and its browser driver
  dl_kind,         \* "none" before construction, "advanced" or "content"
  dl_handle,       \* self.driver: 0 for None, else the instance
  dl_made,         \* webdriver.Chrome instances constructed so far
  dl_quit,         \* the instances whose quit() has returned
  dl_session,      \* "open" or "closed" (self.session.close() has run)
  dl_log,          \* the calls made on the object and what they gave
  \* AdvancedScraper.save_to_database on the database file it finds
  sv_schema,       \* "unset", or what the file is: see Schemas
  sv_rows,         \* the rows of its scraped_contents table
  sv_calls,        \* the calls made and what they returned
  \* the scraped_contents table behind SQLite's locks
  db,              \* committed rows, in insertion order
  tx,              \* per connection: rows inserted and not yet committed
  writer,          \* the connection holding the write lock, or "none"
  intx,            \* per connection: a transaction is open (BEGIN was issued)
  shared,          \* per connection: a read lock is held until the transaction ends
  snap,            \* per connection: the number of committed rows its read lock shows
  journal_mode,    \* "delete" (rollback journal) or "wal", a property of the file
  logs,            \* the committed rows of scraping_logs, in insertion order
  \* the passes
  pc,              \* per process: where its pass is
  kind,            \* per process: "advanced" (scrape_all_targets), "content" (scrape_target),
                   \* "active" (scrape_all_active_targets), "cycle" (_scrape_financial_sources)
  tgt,             \* per process: the target being scraped (index into Targets)
  article_links,   \* per process: the links or items of the current target
  idx,             \* per process: loop index into article_links
  cand,            \* per process: the row between its SELECT and its INSERT
  pending,         \* per process: objects added to the SQLAlchemy session, not flushed
  found_count,
  new_count,
  results,         \* per process: the target results of the pass so far
  log_id,          \* per process: the row of logs its scrape_target created, 0 for none
  totals,          \* per process: total_found and total_new of the pass so far
  total_scraped,   \* per process: total_scraped of _scrape_financial_sources
  outcome,         \* per process: how its last pass ended
  since,           \* per process: the last of an AdvancedScraper pass, "request" or "delay"
  requests,        \* per process: the page requests an AdvancedScraper pass has made
  broken,          \* per process: its SQLAlchemy session needs a rollback() nobody calls
  passes,          \* number of passes started
  relevance,       \* is_relevant_content on the (title, content) pairs of the sites
  obs,             \* per process: what the pass met and did with it, in order
  last             \* the pass that completed last

xvars == <<x_pc, method, use_selenium, best_content, best_score, steps, x_result, driver, created>>
fvars == <<flt_pc, flt_title, flt_content, flt_text, flt_score, flt_result>>
lvars == <<lnk_pc, lnk_page, lnk_sel, lnk_i, lnk_links, lnk_result>>
svars == <<sp_pc, sp_texts, sp_paras, sp_best_content, sp_best_length, sp_tried, sp_result>>
dvars == <<dl_kind, dl_handle, dl_made, dl_quit, dl_session, dl_log>>
wvars == <<sv_schema, sv_rows, sv_calls>>

dbvars == <<db, tx, writer, intx, shared, snap, journal_mode, logs>>
pvars == <<pc, kind, tgt, article_links, idx, cand, pending, found_count, new_count,
           results, log_id, totals, total_scraped, outcome, since, requests, broken, passes, relevance, obs, last>>
ovars == <<dbvars, pvars>>

NoScore == [relevance |-> 0, title |-> 0, quality |-> 0, final |-> 0]

InitExtract ==
  /\ x_pc = "idle"
  /\ method = 0
  /\ use_selenium = FALSE
  /\ best_content = ""
  /\ best_score = 0
  /\ steps = <<>>
  /\ x_result = ""
  /\ driver = FALSE
  /\ created = 0

InitFilter ==
  /\ flt_pc = "idle"
  /\ flt_title = ""
  /\ flt_content = ""
  /\ flt_text = ""
  /\ flt_score = NoScore
  /\ flt_result = FALSE

(***************************************************************************)
(* extract_with_multiple_methods, one method at a time                     *)
(***************************************************************************)

\* _get_selenium_driver as method 4 calls it, the method doing o: a driver
\* that exists is reused; otherwise webdriver.Chrome is constructed, and the
\* method raises either there (no driver is stored) or later on.
GetDriver(o) ==
  IF driver THEN UNCHANGED <<driver, created>>
  ELSE \/ driver' = TRUE /\ created' = created + 1
       \/ o.raised /\ UNCHANGED <<driver, created>>

\* Entry: best_content = "", best_score = 0.  The scraper was constructed
\* with use_selenium False (the default) or True; an earlier call with
\* use_selenium True may have left a driver.
CallExtract ==
  /\ x_pc = "idle"
  /\ \E sel \in BOOLEAN : use_selenium' = sel /\ driver' \in {FALSE, sel}
  /\ created' = 0
  /\ x_pc' = "running"
  /\ method' = 1
  /\ best_content' = ""
  /\ best_score' = 0
  /\ steps' = <<>>
  /\ UNCHANGED <<x_result, fvars, ovars, lvars, svars, dvars, wvars>>

\* Method `method` is attempted and does o: it raises (caught by the except
\* clause when the method is in a try block), or returns a text that is kept
\* when it improves on the best so far.
RunMethod ==
  /\ x_pc = "running"
  /\ method \in Methods
  /\ Attempted(method, use_selenium, best_score)
  /\ \E o \in Outcomes :
       /\ steps' = Append(steps, [m |-> method, ran |-> TRUE, out |-> o, before |-> best_score])
       /\ IF o.raised /\ method \notin TryBlocks
          THEN /\ x_pc' = "raised"
               /\ UNCHANGED <<method, best_content, best_score>>
          ELSE /\ x_pc' = "running"
               /\ method' = method + 1
               /\ IF ~o.raised /\ Improves(o.text, best_score)
                  THEN best_content' = o.text /\ best_score' = Len(o.text)
                  ELSE UNCHANGED <<best_content, best_score>>
       /\ IF method = 4 THEN GetDriver(o) ELSE UNCHANGED <<driver, created>>
  /\ UNCHANGED <<use_selenium, x_result, fvars, ovars, lvars, svars, dvars, wvars>>

\* The condition of method 4 or 5 is false: the method is not attempted.
SkipMethod ==
  /\ x_pc = "running"
  /\ method \in Methods
  /\ ~Attempted(method, use_selenium, best_score)
  /\ steps' = Append(steps, [m |-> method, ran |-> FALSE, out |-> Returned(""), before |-> best_score])
  /\ method' = method + 1
  /\ UNCHANGED <<x_pc, use_selenium, best_content, best_score, x_result, driver, created,
                 fvars, ovars, lvars, svars, dvars, wvars>>

\* `return best_content`
ReturnExtract ==
  /\ x_pc = "running"
  /\ method = 6
  /\ x_pc' = "returned"
  /\ x_result' = best_content
  /\ UNCHANGED <<method, use_selenium, best_content, best_score, steps, driver, created,
                 fvars, ovars, lvars, svars, dvars, wvars>>

NextExtract == CallExtract \/ RunMethod \/ SkipMethod \/ ReturnExtract

(***************************************************************************)
(* is_relevant_content, one stage at a time                                *)
(***************************************************************************)

\* Titles and contents the filter is called with.  A content is a choice of
\* phrases followed by filler up to a given length.
FilterTitles ==
  { "Earnings preview", "Latest News roundup", "CEO buys SHARES at a LOSS",
    "A long headline that carries no signal at all but adds many characters" }

Phrases ==
  << "bitcoin rose $5 billion ", "apple grew 3.5% ", "nvidia q3 2024 ",
     "tesla and google ", "All Rights Reserved ", "inflation worries " >>

PhraseSets == {ps \in SUBSET (1..Len(Phrases)) : Cardinality(ps) <= 2}

RECURSIVE JoinPhrases(_, _)
JoinPhrases(ps, i) ==
  IF i > Len(Phrases) THEN ""
  ELSE (IF i \in ps THEN Phrases[i] ELSE "") \o JoinPhrases(ps, i + 1)

\* The phrases of ps followed by filler, n characters in all.
Padded(ps, n) == Fill(JoinPhrases(ps, 1), n)

FilterContents ==
  {Padded(ps, n) : ps \in PhraseSets, n \in {MinContentLen - 1, MinContentLen}}

CallFilter ==
  /\ flt_pc = "idle"
  /\ \E t \in FilterTitles, c \in FilterContents :
       /\ flt_title' = t
       /\ flt_content' = c
       /\ flt_text' = FilterText(t, c)
  /\ flt_pc' = "length"
  /\ UNCHANGED <<flt_score, flt_result, xvars, ovars, lvars, svars, dvars, wvars>>

\* `if len(content) < 300: return False`
CheckLength ==
  /\ flt_pc = "length"
  /\ IF TooShort(flt_title, flt_content)
     THEN flt_pc' = "done" /\ flt_result' = FALSE
     ELSE flt_pc' = "blacklist" /\ UNCHANGED flt_result
  /\ UNCHANGED <<flt_title, flt_content, flt_text, flt_score, xvars, ovars, lvars, svars, dvars, wvars>>

\* `for pattern in blacklist_patterns: if re.search(pattern, text): return False`
CheckBlacklist ==
  /\ flt_pc = "blacklist"
  /\ IF Blacklisted(flt_text, 1)
     THEN flt_pc' = "done" /\ flt_result' = FALSE
     ELSE flt_pc' = "score" /\ UNCHANGED flt_result
  /\ UNCHANGED <<flt_title, flt_content, flt_text, flt_score, xvars, ovars, lvars, svars, dvars, wvars>>

\* The three scores, their sum and the decision.
ScoreAndDecide ==
  /\ flt_pc = "score"
  /\ LET rs == relevance_score(flt_text)
         ts == title_score(flt_title)
         qs == quality_score(flt_text)
     IN  /\ flt_score' = [relevance |-> rs, title |-> ts, quality |-> qs, final |-> rs + ts + qs]
         /\ flt_result' = ScoreAccepts(rs + ts + qs)
  /\ flt_pc' = "done"
  /\ UNCHANGED <<flt_title, flt_content, flt_text, xvars, ovars, lvars, svars, dvars, wvars>>

NextFilter == CallFilter \/ CheckLength \/ CheckBlacklist \/ ScoreAndDecide

(***************************************************************************)
(* AdvancedScraper._extract_article_links                                  *)
(***************************************************************************)

\* `elements[:10]`
MaxElements == 10
\* `len(title) < 10 or len(title) > 200`
MinTitleLen == 10
MaxTitleLen == 200

\* config['url'] of the target, the base of relative hrefs.
BaseUrl == "https://www.npr.org/sections/business/"

\* An element a selector matches: its tag, whether an <a> is found for it
\* (the element itself when it is one), its stripped text, the href of the <a>.
Element(tag, anchor, title, href) ==
  [tag |-> tag, anchor |-> anchor, title |-> title, href |-> href]
\* link_elem.get('href'): None, a value that is not a str, or a str.
NoHref == [kind |-> "none", s |-> ""]
ListHref == [kind |-> "list", s |-> ""]
Href(s) == [kind |-> "str", s |-> s]

\* urljoin(base_url, href): an href with a scheme stands for itself, one
\* that starts with "/" replaces the path of the base, any other replaces
\* the last segment of the base; an unbalanced "[" raises ValueError.
HasScheme(s) ==
  \E i \in 2..Len(s) : /\ CharAt(s, i) = ":"
                       /\ \A j \in 1..(i - 1) : CharAt(s, j) \notin {"/", "?", "#", ":"}
Origin(base) ==
  LET i == CHOOSE i \in 1..Len(base) : HasAt("://", base, i)
      k == CHOOSE k \in (i + 3)..Len(base) :
             CharAt(base, k) = "/" /\ \A j \in (i + 3)..(k - 1) : CharAt(base, j) # "/"
  IN  SubSeq(base, 1, k - 1)
Directory(base) ==
  LET k == CHOOSE k \in 1..Len(base) :
             CharAt(base, k) = "/" /\ \A j \in (k + 1)..Len(base) : CharAt(base, j) # "/"
  IN  SubSeq(base, 1, k)
UrljoinRaises(s) == IsSubstr("[", s) /\ ~IsSubstr("]", s)
urljoin(base, s) ==
  IF HasScheme(s) THEN s
  ELSE IF HasAt("/", s, 1) THEN Origin(base) \o s
  ELSE Directory(base) \o s

\* The href of e is a non-empty str that resolves to a URL starting with "http".
ValidHref(e, base) ==
  /\ e.href.kind = "str"
  /\ e.href.s # ""
  /\ ~UrljoinRaises(e.href.s)
  /\ HasAt("http", urljoin(base, e.href.s), 1)

TitleOutsideOrAtMin(title) == Len(title) <= MinTitleLen \/ Len(title) > MaxTitleLen
\* `if len(title) < 10 or len(title) > 200: continue`
TitleOutside(title) == Len(title) < MinTitleLen \/ Len(title) > MaxTitleLen

\* The body of the loop over elements reaches links.append for e: none of
\* its `continue`s is taken and nothing raises.
Accepts(e, base) ==
  /\ e.anchor
  /\ e.title # ""
  /\ ValidHref(e, base)
  /\ ~TitleOutside(e.title)

\* (title, full_url) of an accepted element.
LinkOf(e, base) == Link(e.title, urljoin(base, e.href.s))

\* The links the loop over elements[:10] appends, from element i on.
RECURSIVE LinksOf(_, _, _)
LinksOf(elements, base, i) ==
  IF i > Min(Len(elements), MaxElements) THEN <<>>
  ELSE (IF Accepts(elements[i], base) THEN <<LinkOf(elements[i], base)>> ELSE <<>>)
       \o LinksOf(elements, base, i + 1)

FoundNever(links) == FALSE
\* `if links: break`
Found(links) == links # <<>>

\* The loop over selectors from selector s on, with links found so far.
RECURSIVE Collect(_, _, _, _)
Collect(page, base, s, links) ==
  IF s > Len(page) THEN links
  ELSE LET found == links \o LinksOf(page[s], base, 1)
       IN  IF Found(found) THEN found ELSE Collect(page, base, s + 1, found)

SeenNothing(url, seen) == FALSE
\* `if url not in seen`
SeenUrl(url, seen) == url \in seen

\* The loop that fills unique_links, from link i on.
RECURSIVE Unique(_, _, _)
Unique(links, i, seen) ==
  IF i > Len(links) THEN <<>>
  ELSE IF SeenUrl(links[i].url, seen) THEN Unique(links, i + 1, seen)
  ELSE <<links[i]>> \o Unique(links, i + 1, seen \cup {links[i].url})

extract_article_links(page, base) == Unique(Collect(page, base, 1, <<>>), 1, {})

\* Titles at the bounds of the length test.
Title9 == "Nine char"
Title10 == "Ten chars!"
Title200 == Fill("Two hundred characters of headline ", MaxTitleLen)
Title201 == Fill("Two hundred and one characters ", MaxTitleLen + 1)

Anchor(title, href) == Element("a", TRUE, title, href)

\* What a selector can match on the landing page.
ThreeStories ==
  << Anchor(Title10, Href("/story-1")),
     Anchor(Title200, Href("https://www.npr.org/story-2")),
     Element("h2", TRUE, TitleFed, Href("story-3")) >>
Repeats ==
  << Anchor(TitleRally, Href("/story-1")),
     Anchor(TitleFed, Href("https://www.npr.org/story-1")),
     Anchor(TitleFed, Href("/story-4")),
     Anchor(TitleRally, Href("/story-1")),
     Anchor(TitleShares, Href("/story-4")) >>
Chrome ==
  << Element("h2", FALSE, TitleFed, NoHref),
     Anchor("", Href("/logo")),
     Anchor(TitleFed, NoHref),
     Anchor(TitleFed, Href("")),
     Anchor(TitleFed, ListHref),
     Anchor(TitleFed, Href("mailto:desk@npr.org")),
     Anchor(TitleFed, Href("http://[broken")),
     Anchor(Title9, Href("/story-5")),
     Anchor(Title201, Href("/story-6")) >>
ChromeThenStory == Chrome \o << Anchor(TitleRally, Href("/story-7")), Anchor(TitleFed, Href("/story-8")) >>
Bounds ==
  << Anchor(Title9, Href("/story-5")),
     Anchor(Title10, Href("/story-9")),
     Anchor(Title201, Href("/story-6")),
     Anchor(Title200, Href("/story-10")) >>
MatchLists == { <<>>, ThreeStories, Repeats, Chrome, ChromeThenStory, Bounds }

\* The landing pages: what each of three selectors matches.
LandingPages == { <<a, b, c>> : a \in MatchLists, b \in MatchLists, c \in MatchLists }

NoPage == <<>>

InitLinks ==
  /\ lnk_pc = "idle"
  /\ lnk_page = NoPage
  /\ lnk_sel = 0
  /\ lnk_i = 0
  /\ lnk_links = <<>>
  /\ lnk_result = <<>>

\* Entry: links = [], the loop is at the first selector and its first element.
CallLinks ==
  /\ lnk_pc = "idle"
  /\ \E page \in LandingPages : lnk_page' = page
  /\ lnk_pc' = "select"
  /\ lnk_sel' = 1
  /\ lnk_i' = 1
  /\ lnk_links' = <<>>
  /\ UNCHANGED <<lnk_result, xvars, fvars, ovars, svars, dvars, wvars>>

\* The body of the loop over elements[:10] for element lnk_i.
TryElement ==
  /\ lnk_pc = "select"
  /\ lnk_i <= Min(Len(lnk_page[lnk_sel]), MaxElements)
  /\ LET e == lnk_page[lnk_sel][lnk_i]
     IN  lnk_links' = IF Accepts(e, BaseUrl) THEN Append(lnk_links, LinkOf(e, BaseUrl))
                      ELSE lnk_links
  /\ lnk_i' = lnk_i + 1
  /\ UNCHANGED <<lnk_pc, lnk_page, lnk_sel, lnk_result, xvars, fvars, ovars, svars, dvars, wvars>>

\* After the elements of a selector: break when links were found, else the
\* next selector; after the last one the loop ends.
EndSelector ==
  /\ lnk_pc = "select"
  /\ lnk_i > Min(Len(lnk_page[lnk_sel]), MaxElements)
  /\ IF Found(lnk_links) \/ lnk_sel = Len(lnk_page)
     THEN lnk_pc' = "dedup" /\ UNCHANGED <<lnk_sel, lnk_i>>
     ELSE lnk_sel' = lnk_sel + 1 /\ lnk_i' = 1 /\ UNCHANGED lnk_pc
  /\ UNCHANGED <<lnk_page, lnk_links, lnk_result, xvars, fvars, ovars, svars, dvars, wvars>>

\* The removal of repeated URLs and `return unique_links`.
ReturnLinks ==
  /\ lnk_pc = "dedup"
  /\ lnk_result' = Unique(lnk_links, 1, {})
  /\ lnk_pc' = "returned"
  /\ UNCHANGED <<lnk_page, lnk_sel, lnk_i, lnk_links, xvars, fvars, ovars, svars, dvars, wvars>>

NextLinks == CallLinks \/ TryElement \/ EndSelector \/ ReturnLinks

(***************************************************************************)
(* AdvancedScraper._extract_content_from_soup                              *)
(***************************************************************************)

\* `if best_length < 500`
ParagraphThreshold == 500
\* `if len(p.get_text(strip=True)) > 30`
MinParagraphLen == 30

\* The longest of the texts from text i on, best being the longest before;
\* a text replaces the best only when it is strictly longer.
RECURSIVE LongestFrom(_, _, _)
LongestFrom(texts, i, best) ==
  IF i > Len(texts) THEN best
  ELSE LongestFrom(texts, i + 1, IF Len(texts[i]) > Len(best) THEN texts[i] ELSE best)

\* The paragraph texts longer than 30 characters.
Meaningful(paras) == SelectSeq(paras, LAMBDA t : Len(t) > MinParagraphLen)

\* '\n'.join(parts)
RECURSIVE JoinLines(_, _)
JoinLines(parts, i) ==
  IF i > Len(parts) THEN ""
  ELSE parts[i] \o (IF i < Len(parts) THEN "\n" ELSE "") \o JoinLines(parts, i + 1)

\* The paragraph branch with the best of the selectors: the joined
\* paragraphs replace it when there are some and they are longer.
WithParagraphs(best, paras) ==
  LET parts == Meaningful(paras)
  IN  IF parts # <<>> /\ Len(JoinLines(parts, 1)) > Len(best) THEN JoinLines(parts, 1) ELSE best

\* texts: get_text of the elements the content selectors match, in order;
\* paras: get_text of the <p> elements.
extract_content_from_soup(texts, paras) ==
  LET best == LongestFrom(texts, 1, "")
  IN  IF Len(best) < ParagraphThreshold THEN WithParagraphs(best, paras) ELSE best

SoupText(n) == Fill("article body ", n)
SoupPara(n) == Fill("paragraph ", n)

\* What the content selectors match on a page, and its paragraphs.
SelectorTexts ==
  { <<>>, <<SoupText(120)>>, <<SoupText(299)>>, <<SoupText(300)>>,
    <<SoupText(300), SoupText(499)>>, <<SoupText(500)>>, <<SoupText(700), SoupText(300)>>,
    <<SoupText(400), Fill("another body ", 400)>> }
ParagraphTexts ==
  { <<>>, <<SoupPara(30)>>, <<SoupPara(31)>>, <<SoupPara(20), SoupPara(200), SoupPara(98)>>,
    <<SoupPara(200), SoupPara(200), SoupPara(200)>> }

InitSoup ==
  /\ sp_pc = "idle"
  /\ sp_texts = <<>>
  /\ sp_paras = <<>>
  /\ sp_best_content = ""
  /\ sp_best_length = 0
  /\ sp_tried = FALSE
  /\ sp_result = ""

\* Entry, after the unwanted elements are removed: best_content = "",
\* best_length = 0.
CallSoup ==
  /\ sp_pc = "idle"
  /\ \E texts \in SelectorTexts, paras \in ParagraphTexts :
       sp_texts' = texts /\ sp_paras' = paras
  /\ sp_pc' = "selectors"
  /\ sp_best_content' = ""
  /\ sp_best_length' = 0
  /\ sp_tried' = FALSE
  /\ UNCHANGED <<sp_result, xvars, fvars, ovars, lvars, dvars, wvars>>

\* The loop over content_selectors and their elements.
ScanSelectors ==
  /\ sp_pc = "selectors"
  /\ sp_best_content' = LongestFrom(sp_texts, 1, "")
  /\ sp_best_length' = Len(LongestFrom(sp_texts, 1, ""))
  /\ sp_pc' = "paragraphs"
  /\ UNCHANGED <<sp_texts, sp_paras, sp_tried, sp_result, xvars, fvars, ovars, lvars, dvars, wvars>>

\* `if best_length < 500:` the paragraphs are tried; best_length is left
\* as it was.
TryParagraphs ==
  /\ sp_pc = "paragraphs"
  /\ sp_best_length < ParagraphThreshold
  /\ sp_tried' = TRUE
  /\ sp_best_content' =
       (LET parts == Meaningful(sp_paras)
        IN  IF parts # <<>> /\ Len(JoinLines(parts, 1)) > sp_best_length
            THEN JoinLines(parts, 1) ELSE sp_best_content)
  /\ sp_pc' = "return"
  /\ UNCHANGED <<sp_texts, sp_paras, sp_best_length, sp_result, xvars, fvars, ovars, lvars, dvars, wvars>>

\* The condition is false: the paragraphs are not looked at.
SkipParagraphs ==
  /\ sp_pc = "paragraphs"
  /\ ~(sp_best_length < ParagraphThreshold)
  /\ sp_pc' = "return"
  /\ UNCHANGED <<sp_texts, sp_paras, sp_best_content, sp_best_length, sp_tried, sp_result,
                 xvars, fvars, ovars, lvars, dvars, wvars>>

\* `return best_content`
ReturnSoup ==
  /\ sp_pc = "return"
  /\ sp_result' = sp_best_content
  /\ sp_pc' = "returned"
  /\ UNCHANGED <<sp_texts, sp_paras, sp_best_content, sp_best_length, sp_tried,
                 xvars, fvars, ovars, lvars, dvars, wvars>>

NextSoup == CallSoup \/ ScanSelectors \/ TryParagraphs \/ SkipParagraphs \/ ReturnSoup

(***************************************************************************)
(* The browser driver of a scraper: __init__, _get_selenium_driver, close  *)
(***************************************************************************)

\* Calls made on one scraper object in a behaviour.
MaxCalls == 5

Scrapers == {"advanced", "content"}

\* One entry of dl_log: a call of _get_selenium_driver with the handle
\* before it and the instance it returned (0: it raised), or a call of
\* close with the handle before it and whether it returned.
GotDriver(before, ret) == [op |-> "get", before |-> before, ret |-> ret, returned |-> ret # 0]
Closed(before, ok) == [op |-> "close", before |-> before, ret |-> 0, returned |-> ok]

InitDriver ==
  /\ dl_kind = "none"
  /\ dl_handle = 0
  /\ dl_made = 0
  /\ dl_quit = {}
  /\ dl_session = "closed"
  /\ dl_log = <<>>

\* __init__: self.driver = None, a requests.Session is created.
NewScraper ==
  /\ dl_kind = "none"
  /\ \E k \in Scrapers : dl_kind' = k
  /\ dl_handle' = 0
  /\ dl_session' = "open"
  /\ UNCHANGED <<dl_made, dl_quit, dl_log, xvars, fvars, ovars, lvars, svars, wvars>>

CreatesAlways(handle) == TRUE
\* `if self.driver is None:`
Creates(handle) == handle = 0

\* _get_selenium_driver: with no driver, webdriver.Chrome(...) is
\* constructed and stored, unless the construction raises; AdvancedScraper
\* then runs a script on the driver, which may raise with the driver
\* stored.  `return self.driver`.
GetSeleniumDriver ==
  /\ dl_kind \in Scrapers
  /\ Len(dl_log) < MaxCalls
  /\ IF Creates(dl_handle)
     THEN \/ /\ dl_log' = Append(dl_log, GotDriver(dl_handle, 0))
             /\ UNCHANGED <<dl_handle, dl_made>>
          \/ /\ dl_made' = dl_made + 1
             /\ dl_handle' = dl_made + 1
             /\ \/ dl_log' = Append(dl_log, GotDriver(dl_handle, dl_made + 1))
                \/ /\ dl_kind = "advanced"
                   /\ dl_log' = Append(dl_log, GotDriver(dl_handle, 0))
     ELSE /\ dl_log' = Append(dl_log, GotDriver(dl_handle, dl_handle))
          /\ UNCHANGED <<dl_handle, dl_made>>
  /\ UNCHANGED <<dl_kind, dl_quit, dl_session, xvars, fvars, ovars, lvars, svars, wvars>>

\* close: `if self.driver: self.driver.quit(); self.driver = None`, then
\* self.session.close().  A quit() that raises leaves close at once.
CloseScraper ==
  /\ dl_kind \in Scrapers
  /\ Len(dl_log) < MaxCalls
  /\ \/ /\ dl_handle # 0
        /\ dl_log' = Append(dl_log, Closed(dl_handle, FALSE))
        /\ UNCHANGED <<dl_handle, dl_quit, dl_session>>
     \/ /\ dl_quit' = IF dl_handle # 0 THEN dl_quit \cup {dl_handle} ELSE dl_quit
        /\ dl_handle' = 0
        /\ dl_session' = "closed"
        /\ dl_log' = Append(dl_log, Closed(dl_handle, TRUE))
  /\ UNCHANGED <<dl_kind, dl_made, xvars, fvars, ovars, lvars, svars, wvars>>

NextDriver == NewScraper \/ GetSeleniumDriver \/ CloseScraper

(***************************************************************************)
(* AdvancedScraper.save_to_database                                        *)
(***************************************************************************)

\* Calls of save_to_database in a behaviour.
MaxSaves == 3

\* What the call finds on disk: no database file on its three paths; a
\* file whose scraped_contents is the table of models.py, which has no
\* column source, created_at or metadata; a file whose table has them and
\* takes a row without target_id.
Schemas == {"missing", "models", "wide"}

\* The value of a column the INSERT does not name.
Null == [sha256 |-> "NULL"]

SavedRow(title, content, url, source) ==
  [title |-> title, content |-> content, url |-> url, source |-> source, content_hash |-> Null]
SaveCall(title, content, ret) == [title |-> title, content |-> content, ret |-> ret]

SaveTitles == {TitleRally, TitleFed}
SaveContents == {BodyRally, BodyOffTopic}
SaveUrls == {"u1", "u2"}

InitSave ==
  /\ sv_schema = "unset"
  /\ sv_rows = <<>>
  /\ sv_calls = <<>>

\* The database file the calls will meet.
FindDatabase ==
  /\ sv_schema = "unset"
  /\ \E f \in Schemas : sv_schema' = f
  /\ UNCHANGED <<sv_rows, sv_calls, xvars, fvars, ovars, lvars, svars, dvars>>

\* save_to_database(title, content, url): no file, return False; the
\* INSERT names (title, content, url, source, created_at, metadata), with
\* no query before it and no content_hash; an exception returns False.
SaveToDatabase ==
  /\ sv_schema \in Schemas
  /\ Len(sv_calls) < MaxSaves
  /\ \E title \in SaveTitles, content \in SaveContents, url \in SaveUrls :
       IF sv_schema = "wide"
       THEN /\ sv_rows' = Append(sv_rows, SavedRow(title, content, url, "Manual Collection"))
            /\ sv_calls' = Append(sv_calls, SaveCall(title, content, TRUE))
       ELSE /\ sv_calls' = Append(sv_calls, SaveCall(title, content, FALSE))
            /\ UNCHANGED sv_rows
  /\ UNCHANGED <<sv_schema, xvars, fvars, ovars, lvars, svars, dvars>>

NextSave == FindDatabase \/ SaveToDatabase

(***************************************************************************)
(* Orchestration passes over the shared table                              *)
(***************************************************************************)

\* The processes that run passes: a manual-collection request, a scheduled job.
Procs == {"p1", "p2"}
\* Passes started in a behaviour.
MaxPasses == 2

NoCand == Row("", "", "", sha256(""), "", 0, 0)

\* The (title, content) pairs the relevance filter can be called with.
CandidatePairs ==
  UNION { UNION { { <<l.links[i].title, extract_with_multiple_methods(v, FALSE)>> :
                      v \in PageVersions[l.links[i].url] } :
                  i \in DOMAIN l.links } :
          l \in UNION {Landings[t] : t \in DOMAIN Landings} }

\* One entry of obs: a landing page or item list that was met, or an article
\* with what the gate did with it.
Landed(l, seq) ==
  [ev |-> "landing", ok |-> l.ok, links |-> seq, title |-> "", content |-> "",
   gated |-> FALSE, seen |-> FALSE, stored |-> FALSE, err |-> ""]
Skipped(title, content) ==
  [ev |-> "article", ok |-> TRUE, links |-> <<>>, title |-> title, content |-> content,
   gated |-> FALSE, seen |-> FALSE, stored |-> FALSE, err |-> ""]
Gated(title, content, seen, stored, err) ==
  [ev |-> "article", ok |-> TRUE, links |-> <<>>, title |-> title, content |-> content,
   gated |-> TRUE, seen |-> seen, stored |-> stored, err |-> err]

\* What a pass met, without what it did with it.
Inputs(o) ==
  [i \in DOMAIN o |-> [ev |-> o[i].ev, ok |-> o[i].ok, links |-> o[i].links,
                        title |-> o[i].title, content |-> o[i].content]]

TargetResult(t, status, found, new) ==
  [target |-> Targets[t], status |-> status, found |-> found, new |-> new]

\* The result of a target that failed in _scrape_target: the `error` is
\* the message for a landing page that could not be fetched or for an empty
\* list of links.
AccessError == "main page access failed"
NoLinksError == "no article links found"
FailedResult(t, error) ==
  [target |-> Targets[t], status |-> "failed", error |-> error, found |-> 0, new |-> 0]

\* The result scrape_all_active_targets records for a target whose
\* scrape_target raised.
FailedNoCounts(t, error) == [target |-> Targets[t], status |-> "failed", error |-> error]

\* total_found and total_new at the start of a pass, and after
\* `+= target_result['found']`, `+= target_result['new']`.
NoTotals == [found |-> 0, new |-> 0]
AddTotals(t, found, new) == [found |-> t.found + found, new |-> t.new + new]

RECURSIVE TotalNew(_, _)
TotalNew(rs, i) == IF i > Len(rs) THEN 0 ELSE rs[i].new + TotalNew(rs, i + 1)

\* total_new of scrape_all_active_targets: the sum over the targets that returned.
RECURSIVE ActiveNew(_, _)
ActiveNew(rs, i) ==
  IF i > Len(rs) THEN 0
  ELSE (IF rs[i].status = "success" THEN rs[i].new ELSE 0) + ActiveNew(rs, i + 1)

NoPass == [kind |-> "none", tgt |-> 0, obs |-> <<>>, new |-> 0, repeat |-> FALSE]

\* The record of a pass of process p that ends with observations o and n new rows.
Completed(p, o, n) ==
  [kind |-> kind[p], tgt |-> IF kind[p] = "content" THEN tgt[p] ELSE 0, obs |-> o, new |-> n,
   repeat |-> /\ last.kind = kind[p]
              /\ kind[p] = "content" => last.tgt = tgt[p]
              /\ Inputs(last.obs) = Inputs(o)]

\* ScrapingLog(target_id=target.id, status='running', started_at=...): the
\* columns left out take their defaults.
RunningLog(t, p) ==
  [target_id |-> t, status |-> "running", items_found |-> 0, items_new |-> 0,
   error_message |-> "", finished |-> FALSE, by |-> p]
CompletedLogUncounted(log, found, new) ==
  [log EXCEPT !.status = "completed", !.items_found = found, !.finished = TRUE]

\* log.status = 'completed'; log.items_found = ...; log.items_new = ...;
\* log.finished_at = ...
CompletedLog(log, found, new) ==
  [log EXCEPT !.status = "completed", !.items_found = found, !.items_new = new, !.finished = TRUE]
\* log.status = 'failed'; log.error_message = str(e); log.finished_at = ...
FailedLog(log, error) ==
  [log EXCEPT !.status = "failed", !.error_message = error, !.finished = TRUE]

\* The journal modes the database file can be in: SQLite's default, which
\* the scrapers' connections leave as it is, and the write-ahead log the
\* dashboard's connections switch the file to.
JournalModes == {"delete", "wal"}

\* The rows a SELECT of p reads: the committed rows its read lock shows, or
\* all of them when it holds none, and its own uncommitted rows.
Visible(p) == (IF shared[p] THEN SubSeq(db, 1, snap[p]) ELSE db) \o tx[p]

\* Under the write-ahead log a transaction that has read cannot write once
\* another connection has committed: "database is locked".
Stale(p) == journal_mode = "wal" /\ shared[p] /\ snap[p] # Len(db)

\* Under the rollback journal a commit that writes needs every other
\* connection's read lock gone: "database is locked".
ReadersBlock(p) == journal_mode = "delete" /\ \E q \in Procs \ {p} : shared[q]

InitPasses ==
  /\ db = <<>>
  /\ tx = [p \in Procs |-> <<>>]
  /\ writer = "none"
  /\ intx = [p \in Procs |-> FALSE]
  /\ shared = [p \in Procs |-> FALSE]
  /\ snap = [p \in Procs |-> 0]
  /\ journal_mode \in JournalModes
  /\ logs = <<>>
  /\ log_id = [p \in Procs |-> 0]
  /\ pc = [p \in Procs |-> "idle"]
  /\ kind = [p \in Procs |-> "advanced"]
  /\ tgt = [p \in Procs |-> 1]
  /\ article_links = [p \in Procs |-> <<>>]
  /\ idx = [p \in Procs |-> 1]
  /\ cand = [p \in Procs |-> NoCand]
  /\ pending = [p \in Procs |-> <<>>]
  /\ found_count = [p \in Procs |-> 0]
  /\ new_count = [p \in Procs |-> 0]
  /\ results = [p \in Procs |-> <<>>]
  /\ totals = [p \in Procs |-> NoTotals]
  /\ total_scraped = [p \in Procs |-> 0]
  /\ outcome = [p \in Procs |-> "none"]
  /\ broken = [p \in Procs |-> FALSE]
  /\ since = [p \in Procs |-> "none"]
  /\ requests = [p \in Procs |-> 0]
  /\ passes = 0
  /\ relevance = [pair \in CandidatePairs |-> is_relevant_content(pair[1], pair[2])]
  /\ obs = [p \in Procs |-> <<>>]
  /\ last = NoPass

\* A pass begins: fresh counters, a new connection with no transaction.
BeginPass(p, k, t, at) ==
  /\ pc[p] = "idle"
  /\ passes < MaxPasses
  /\ passes' = passes + 1
  /\ kind' = [kind EXCEPT ![p] = k]
  /\ tgt' = [tgt EXCEPT ![p] = t]
  /\ pc' = [pc EXCEPT ![p] = at]
  /\ article_links' = [article_links EXCEPT ![p] = <<>>]
  /\ idx' = [idx EXCEPT ![p] = 1]
  /\ found_count' = [found_count EXCEPT ![p] = 0]
  /\ new_count' = [new_count EXCEPT ![p] = 0]
  /\ results' = [results EXCEPT ![p] = <<>>]
  /\ log_id' = [log_id EXCEPT ![p] = 0]
  /\ totals' = [totals EXCEPT ![p] = NoTotals]
  /\ total_scraped' = [total_scraped EXCEPT ![p] = 0]
  /\ outcome' = [outcome EXCEPT ![p] = "running"]
  /\ broken' = [broken EXCEPT ![p] = FALSE]
  /\ since' = [since EXCEPT ![p] = "none"]
  /\ requests' = [requests EXCEPT ![p] = 0]
  /\ obs' = [obs EXCEPT ![p] = <<>>]
  /\ UNCHANGED <<dbvars, cand, pending, relevance, last, xvars, fvars, lvars, svars, dvars, wvars>>

\* The connection of p is closed or its session rolled back: what it had
\* not committed is gone and its locks are released.
Release(p) ==
  /\ tx' = [tx EXCEPT ![p] = <<>>]
  /\ writer' = IF writer = p THEN "none" ELSE writer
  /\ intx' = [intx EXCEPT ![p] = FALSE]
  /\ shared' = [shared EXCEPT ![p] = FALSE]
  /\ snap' = [snap EXCEPT ![p] = 0]
  /\ UNCHANGED journal_mode

\* The pass of p ends by `how` with observations o and n rows committed.
EndPass(p, how, o, n) ==
  /\ pc' = [pc EXCEPT ![p] = "idle"]
  /\ outcome' = [outcome EXCEPT ![p] = how]
  /\ obs' = [obs EXCEPT ![p] = o]
  /\ last' = Completed(p, o, n)

(***************************************************************************)
(* AdvancedScraper.scrape_all_targets and _scrape_target                   *)
(***************************************************************************)

\* scrape_all_targets is called (use_selenium False, as the manual
\* collection constructs the scraper); the loop is at the first target.
StartAdvanced(p) == BeginPass(p, "advanced", 1, "landing")

\* _scrape_target has returned: self.adaptive_delay(config['url']), then the
\* loop over self.targets moves on: next target, or conn.commit().
AfterTarget(p) ==
  /\ since' = [since EXCEPT ![p] = "delay"]
  /\ UNCHANGED total_scraped
  /\ IF tgt[p] < Len(Targets)
     THEN /\ tgt' = [tgt EXCEPT ![p] = @ + 1]
          /\ pc' = [pc EXCEPT ![p] = "landing"]
     ELSE /\ pc' = [pc EXCEPT ![p] = "commit"]
          /\ UNCHANGED tgt

TargetFailedUnrecorded(p, error) ==
  /\ AfterTarget(p)
  /\ UNCHANGED <<idx, results, totals, total_scraped>>

\* _scrape_target returned a failed result for the current target.
TargetFailed(p, error) ==
  /\ results' = [results EXCEPT ![p] = Append(@, FailedResult(tgt[p], error))]
  /\ totals' = [totals EXCEPT ![p] = AddTotals(@, 0, 0)]
  /\ AfterTarget(p)
  /\ UNCHANGED idx

AfterArticleUncapped(p, n, d) ==
  IF idx[p] < Len(article_links[p])
  THEN /\ idx' = [idx EXCEPT ![p] = @ + 1]
       /\ pc' = [pc EXCEPT ![p] = "article"]
       /\ since' = [since EXCEPT ![p] = IF d THEN "delay" ELSE "request"]
       /\ UNCHANGED <<tgt, results, totals, total_scraped>>
  ELSE /\ results' = [results EXCEPT ![p] =
                        Append(@, TargetResult(tgt[p], "success", found_count[p], n))]
       /\ totals' = [totals EXCEPT ![p] = AddTotals(@, found_count[p], n)]
       /\ AfterTarget(p)
       /\ UNCHANGED idx

\* The loop over article_links[:3] moves on after an article, n new so far,
\* d telling whether the article reached self.adaptive_delay(article_url):
\* next article, or the success result of the target.
AfterArticle(p, n, d) ==
  IF idx[p] < Min(Len(article_links[p]), MaxArticles)
  THEN /\ idx' = [idx EXCEPT ![p] = @ + 1]
       /\ pc' = [pc EXCEPT ![p] = "article"]
       /\ since' = [since EXCEPT ![p] = IF d THEN "delay" ELSE "request"]
       /\ UNCHANGED <<tgt, results, totals, total_scraped>>
  ELSE /\ results' = [results EXCEPT ![p] =
                        Append(@, TargetResult(tgt[p], "success", found_count[p], n))]
       /\ totals' = [totals EXCEPT ![p] = AddTotals(@, found_count[p], n)]
       /\ AfterTarget(p)
       /\ UNCHANGED idx

ArticleExceptBreaks(p) ==
  /\ results' = [results EXCEPT ![p] =
                   Append(@, TargetResult(tgt[p], "success", found_count[p], new_count[p]))]
  /\ totals' = [totals EXCEPT ![p] = AddTotals(@, found_count[p], new_count[p])]
  /\ AfterTarget(p)
  /\ UNCHANGED idx

\* `except Exception as e: ... continue` of the loop over the articles.
ArticleExcept(p) == AfterArticle(p, new_count[p], FALSE)

\* Landing page fetch and _extract_article_links for the current target.
FetchLanding(p) ==
  /\ pc[p] = "landing"
  /\ \E l \in Landings[tgt[p]] :
       /\ obs' = [obs EXCEPT ![p] = Append(@, Landed(l, l.links))]
       /\ IF ~l.ok \/ Len(l.links) = 0
          THEN /\ TargetFailed(p, IF l.ok THEN NoLinksError ELSE AccessError)
               /\ UNCHANGED <<article_links, found_count, new_count>>
          ELSE /\ article_links' = [article_links EXCEPT ![p] = l.links]
               /\ found_count' = [found_count EXCEPT ![p] = Len(l.links)]
               /\ new_count' = [new_count EXCEPT ![p] = 0]
               /\ idx' = [idx EXCEPT ![p] = 1]
               /\ pc' = [pc EXCEPT ![p] = "article"]
               /\ since' = [since EXCEPT ![p] = "request"]
               /\ UNCHANGED <<tgt, results, totals, total_scraped>>
  /\ requests' = [requests EXCEPT ![p] = @ + 1]
  /\ UNCHANGED <<dbvars, kind, log_id, cand, pending, outcome, broken, passes, relevance, last, xvars, fvars, lvars, svars, dvars, wvars>>

\* One article up to the duplicate check: extraction, the 100-character
\* test, the relevance filter, the fingerprint and the SELECT.  A SELECT in
\* an open transaction that holds no write lock takes a read lock that
\* stays until the transaction ends, and with it the rows then committed.
ProcessArticle(p) ==
  /\ pc[p] = "article"
  /\ LET link == article_links[p][idx[p]]
     IN  \E outs \in PageVersions[link.url] :
           LET content == extract_with_multiple_methods(outs, FALSE)
               h == AdvancedHash(link.title, content)
           IN  IF content = "" \/ Len(content) < MinExtractLen
                  \/ ~relevance[<<link.title, content>>]
               THEN /\ obs' = [obs EXCEPT ![p] = Append(@, Skipped(link.title, content))]
                    /\ AfterArticle(p, new_count[p], FALSE)
                    /\ UNCHANGED <<cand, shared, snap>>
               ELSE /\ shared' = [shared EXCEPT ![p] = @ \/ (intx[p] /\ writer # p)]
                    /\ snap' = [snap EXCEPT ![p] =
                                  IF ~shared[p] /\ intx[p] /\ writer # p THEN Len(db) ELSE @]
                    /\ IF CountHash(Visible(p), h) > 0
                       THEN /\ obs' = [obs EXCEPT ![p] =
                                        Append(@, Gated(link.title, content, TRUE, FALSE, ""))]
                            /\ AfterArticle(p, new_count[p], FALSE)
                            /\ UNCHANGED cand
                       ELSE /\ cand' = [cand EXCEPT ![p] =
                                         Row(link.title, content, link.url, h, "advanced", DefaultTargetId, tgt[p])]
                            /\ pc' = [pc EXCEPT ![p] = "insert"]
                            /\ since' = [since EXCEPT ![p] = "request"]
                            /\ UNCHANGED <<obs, tgt, idx, results, totals, total_scraped>>
  /\ requests' = [requests EXCEPT ![p] = @ + 1]
  /\ UNCHANGED <<db, logs, tx, writer, intx, journal_mode, kind, log_id, article_links, pending, found_count,
                 new_count, outcome, broken, passes, relevance, last, xvars, fvars, lvars, svars, dvars, wvars>>

\* The INSERT of the candidate.  It opens the transaction; it fails with
\* "database is locked" while another connection holds the write lock or
\* when the transaction's read lock shows an outdated table, and with an
\* IntegrityError when content_hash is already in the table; all are caught
\* by the article's except clause.
InsertArticle(p) ==
  /\ pc[p] = "insert"
  /\ LET r == cand[p]
     IN  IF writer \notin {"none", p} \/ Stale(p)
         THEN /\ obs' = [obs EXCEPT ![p] = Append(@, Gated(r.title, r.content, FALSE, FALSE, "locked"))]
              /\ ArticleExcept(p)
              /\ UNCHANGED <<tx, writer, new_count>>
         ELSE /\ writer' = p
              /\ IF UniqueViolation(db \o tx[p], r.content_hash)
                 THEN /\ obs' = [obs EXCEPT ![p] =
                                  Append(@, Gated(r.title, r.content, FALSE, FALSE, "integrity"))]
                      /\ ArticleExcept(p)
                      /\ UNCHANGED <<tx, new_count>>
                 ELSE /\ tx' = [tx EXCEPT ![p] = Append(@, r)]
                      /\ new_count' = [new_count EXCEPT ![p] = @ + 1]
                      /\ obs' = [obs EXCEPT ![p] = Append(@, Gated(r.title, r.content, FALSE, TRUE, ""))]
                      /\ AfterArticle(p, new_count[p] + 1, TRUE)
  /\ intx' = [intx EXCEPT ![p] = TRUE]
  /\ cand' = [cand EXCEPT ![p] = NoCand]
  /\ UNCHANGED <<db, logs, shared, snap, journal_mode, requests, kind, log_id, article_links, pending, found_count,
                 outcome, broken, passes, relevance, last, xvars, fvars, lvars, svars, dvars, wvars>>

\* conn.commit() and conn.close() after the last target.  With rows to
\* write, the commit fails with "database is locked" while the read lock of
\* another connection is in its way; the exception leaves scrape_all_targets
\* and the rows are rolled back with the connection.
CommitAdvanced(p) ==
  /\ pc[p] = "commit"
  /\ LET busy == tx[p] # <<>> /\ ReadersBlock(p)
     IN  IF busy
         THEN /\ UNCHANGED db
              /\ EndPass(p, "raised", obs[p], 0)
         ELSE /\ db' = Committed(db, tx[p])
              /\ EndPass(p, "returned", obs[p], TotalNew(results[p], 1))
  /\ Release(p)
  /\ UNCHANGED logs
  /\ UNCHANGED <<kind, log_id, tgt, article_links, idx, cand, pending, found_count, new_count, results, totals, total_scraped,
                 since, requests, broken, passes, relevance, xvars, fvars, lvars, svars, dvars, wvars>>

(***************************************************************************)
(* ContentScraper: scrape_target, _save_content, scrape_all_active_targets *)
(***************************************************************************)

\* scrape_target(target) is called for one of the targets.
StartContent(p) == \E t \in DOMAIN Targets : BeginPass(p, "content", t, "log")

\* scrape_all_active_targets is called; the loop is at the first target.
StartActive(p) == BeginPass(p, "active", 1, "log")

\* NongBuFinancialScheduler._scrape_financial_sources is called with its
\* ContentScraper; the loop is at the first of the active targets.
StartCycle(p) == BeginPass(p, "cycle", 1, "log")

\* Another connection holds a lock that keeps p from writing and committing.
LockedOut(p) == writer \notin {"none", p} \/ ReadersBlock(p)

\* The call of scrape_target under way is the last of the pass.
PassEnds(p) == kind[p] = "content" \/ tgt[p] = Len(Targets)

\* `total_scraped += len(scraped_contents)`: scraped_contents is the tuple
\* (items_found, items_new) that scrape_target returned.
ScrapedLen(found, new) == Len(<<found, new>>)

\* The loop over the active targets moves on with observations o, rs being
\* what the calls of scrape_target have returned or raised so far: the
\* next target, or the summary (scrape_all_active_targets) or total_scraped
\* (_scrape_financial_sources) is returned.
AfterActive(p, rs, o) ==
  /\ results' = [results EXCEPT ![p] = rs]
  /\ totals' = [totals EXCEPT ![p] =
                  IF kind[p] = "active" /\ rs[Len(rs)].status = "success"
                  THEN AddTotals(@, rs[Len(rs)].found, rs[Len(rs)].new) ELSE @]
  /\ total_scraped' = [total_scraped EXCEPT ![p] =
                         IF kind[p] = "cycle" /\ rs[Len(rs)].status = "success"
                         THEN @ + ScrapedLen(rs[Len(rs)].found, rs[Len(rs)].new) ELSE @]
  /\ IF tgt[p] < Len(Targets)
     THEN /\ tgt' = [tgt EXCEPT ![p] = @ + 1]
          /\ pc' = [pc EXCEPT ![p] = "log"]
          /\ obs' = [obs EXCEPT ![p] = o]
          /\ UNCHANGED <<outcome, last>>
     ELSE /\ EndPass(p, "returned", o, ActiveNew(rs, 1))
          /\ UNCHANGED tgt

\* scrape_target raises: the exception leaves the pass, or the except
\* clause of scrape_all_active_targets records the failure.
ContentRaised(p, o, error) ==
  IF kind[p] = "content"
  THEN /\ EndPass(p, "raised", o, 0)
       /\ UNCHANGED <<tgt, results, totals, total_scraped>>
  ELSE AfterActive(p, Append(results[p], FailedNoCounts(tgt[p], error)), o)

\* scrape_target returns (items_found, items_new).
ContentReturned(p, found, new) ==
  IF kind[p] = "content"
  THEN /\ results' = [results EXCEPT ![p] = <<TargetResult(tgt[p], "success", found, new)>>]
       /\ UNCHANGED <<totals, total_scraped>>
       /\ EndPass(p, "returned", obs[p], new)
       /\ UNCHANGED tgt
  ELSE AfterActive(p, Append(results[p], TargetResult(tgt[p], "success", found, new)), obs[p])

\* A COMMIT that SQLite refused leaves the transaction open with its write
\* lock and the flushed rows, until the session goes with the pass.
CommitRefused(p, flushed) ==
  IF PassEnds(p) THEN Release(p)
  ELSE /\ tx' = [tx EXCEPT ![p] = flushed]
       /\ writer' = p
       /\ intx' = [intx EXCEPT ![p] = TRUE]
       /\ UNCHANGED <<shared, snap, journal_mode>>

\* db.session.add(log); db.session.commit(), before the try block: a
\* failure leaves scrape_target at once.  The INSERT of the log needs the
\* write lock and the COMMIT needs the readers gone; a session whose
\* transaction failed earlier in the pass raises on any commit.
LogCommit(p) ==
  /\ pc[p] = "log"
  /\ IF broken[p]
     THEN /\ ContentRaised(p, obs[p], "rollback")
          /\ IF PassEnds(p) THEN Release(p)
             ELSE UNCHANGED <<tx, writer, intx, shared, snap, journal_mode>>
          /\ UNCHANGED <<broken, logs>>
          /\ log_id' = [log_id EXCEPT ![p] = 0]
     ELSE IF writer \notin {"none", p}
     THEN /\ ContentRaised(p, obs[p], "locked")
          /\ Release(p)
          /\ broken' = [broken EXCEPT ![p] = TRUE]
          /\ UNCHANGED logs
          /\ log_id' = [log_id EXCEPT ![p] = 0]
     ELSE IF ReadersBlock(p)
     THEN /\ ContentRaised(p, obs[p], "locked")
          /\ CommitRefused(p, tx[p])
          /\ broken' = [broken EXCEPT ![p] = TRUE]
          /\ UNCHANGED logs
          /\ log_id' = [log_id EXCEPT ![p] = 0]
     ELSE /\ logs' = Append(logs, RunningLog(TargetId(tgt[p]), p))
          /\ log_id' = [log_id EXCEPT ![p] = Len(logs) + 1]
          /\ pc' = [pc EXCEPT ![p] = "extract"]
          /\ UNCHANGED <<tx, writer, intx, shared, snap, journal_mode, outcome, obs, last, tgt,
                         results, totals, total_scraped, broken>>
  /\ UNCHANGED <<db, kind, article_links, idx, cand, pending, found_count, new_count,
                 since, requests, passes, relevance, xvars, fvars, lvars, svars, dvars, wvars>>

\* The commit of the finally clause after the except clause has marked the
\* log failed with `error`: the UPDATE of the log needs the write lock and
\* the COMMIT needs the readers gone; scrape_target raises either way.
FailedCommit(p, o, error) ==
  IF writer \notin {"none", p}
  THEN /\ ContentRaised(p, o, "locked")
       /\ Release(p)
       /\ broken' = [broken EXCEPT ![p] = TRUE]
       /\ UNCHANGED <<db, logs>>
  ELSE IF ReadersBlock(p)
  THEN /\ ContentRaised(p, o, "locked")
       /\ CommitRefused(p, tx[p] \o pending[p])
       /\ broken' = [broken EXCEPT ![p] = TRUE]
       /\ UNCHANGED <<db, logs>>
  ELSE /\ ContentRaised(p, o, error)
       /\ db' = Committed(db, tx[p] \o pending[p])
       /\ logs' = [logs EXCEPT ![log_id[p]] = FailedLog(@, error)]
       /\ Release(p)
       /\ UNCHANGED broken

\* contents = self._extract_content(target); an exception marks the log
\* failed and is raised again after the commit of the finally clause.
ExtractContent(p) ==
  /\ pc[p] = "extract"
  /\ \E e \in Extractions :
       LET o == Append(obs[p], Landed(e, e.items))
       IN  IF ~e.ok
           THEN /\ FailedCommit(p, o, "request")
                /\ UNCHANGED <<article_links, found_count, new_count, idx>>
           ELSE /\ article_links' = [article_links EXCEPT ![p] = e.items]
                /\ found_count' = [found_count EXCEPT ![p] = Len(e.items)]
                /\ new_count' = [new_count EXCEPT ![p] = 0]
                /\ idx' = [idx EXCEPT ![p] = 1]
                /\ pc' = [pc EXCEPT ![p] = IF Len(e.items) = 0 THEN "finish" ELSE "save"]
                /\ obs' = [obs EXCEPT ![p] = o]
                /\ UNCHANGED <<outcome, last, tgt, results, totals, total_scraped, dbvars, broken>>
  /\ UNCHANGED <<kind, log_id, cand, pending, since, requests, passes, relevance, xvars, fvars, lvars, svars, dvars, wvars>>

\* The error, if any, of flushing the pending objects of p's session: the
\* INSERTs need the write lock and respect the UNIQUE constraint.
FlushError(p) ==
  IF pending[p] = <<>> THEN ""
  ELSE IF writer \notin {"none", p} THEN "locked"
  ELSE IF \E i \in DOMAIN pending[p] : UniqueViolation(db \o tx[p], pending[p][i].content_hash)
       THEN "integrity"
  ELSE ""

\* _save_content for the next item: the fingerprint of the content, the
\* query for it (which first flushes the session) and, when no row has it,
\* the add to the session.  A failed flush rolls the transaction back and
\* ends scrape_target with the exception.
SaveContent(p) ==
  /\ pc[p] = "save"
  /\ LET item == article_links[p][idx[p]]
         h == ContentHash(item.title, item.content)
         e == FlushError(p)
         flushed == tx[p] \o pending[p]
     IN  IF e # ""
         THEN /\ ContentRaised(p, Append(obs[p], Gated(item.title, item.content, FALSE, FALSE, e)), e)
              /\ Release(p)
              /\ broken' = [broken EXCEPT ![p] = TRUE]
              /\ pending' = [pending EXCEPT ![p] = <<>>]
              /\ UNCHANGED <<new_count, idx>>
         ELSE /\ tx' = [tx EXCEPT ![p] = flushed]
              /\ writer' = IF pending[p] # <<>> THEN p ELSE writer
              /\ intx' = [intx EXCEPT ![p] = @ \/ pending[p] # <<>>]
              /\ UNCHANGED <<shared, snap, journal_mode, outcome, last, tgt, results, totals, total_scraped, broken>>
              /\ IF CountHash(db \o flushed, h) > 0
                 THEN /\ pending' = [pending EXCEPT ![p] = <<>>]
                      /\ obs' = [obs EXCEPT ![p] = Append(@, Gated(item.title, item.content, TRUE, FALSE, ""))]
                      /\ UNCHANGED new_count
                 ELSE /\ pending' = [pending EXCEPT ![p] =
                                      <<Row(item.title, item.content, "", h, "content", TargetId(tgt[p]), tgt[p])>>]
                      /\ obs' = [obs EXCEPT ![p] = Append(@, Gated(item.title, item.content, FALSE, TRUE, ""))]
                      /\ new_count' = [new_count EXCEPT ![p] = @ + 1]
              /\ IF idx[p] < Len(article_links[p])
                 THEN idx' = [idx EXCEPT ![p] = @ + 1] /\ UNCHANGED pc
                 ELSE pc' = [pc EXCEPT ![p] = "finish"] /\ UNCHANGED idx
  /\ UNCHANGED <<db, logs, kind, log_id, article_links, cand, found_count, since, requests, passes, relevance,
                 xvars, fvars, lvars, svars, dvars, wvars>>

\* The log is updated and the finally clause commits: the pending objects
\* are flushed and the transaction committed, or the exception leaves
\* scrape_target: after a failed flush the transaction is rolled back, after
\* a refused COMMIT it stays open.
FinishContent(p) ==
  /\ pc[p] = "finish"
  /\ IF writer \notin {"none", p} \/ FlushError(p) # ""
     THEN /\ UNCHANGED <<db, logs>>
          /\ ContentRaised(p, obs[p], IF FlushError(p) # "" THEN FlushError(p) ELSE "locked")
          /\ Release(p)
          /\ broken' = [broken EXCEPT ![p] = TRUE]
     ELSE IF ReadersBlock(p)
     THEN /\ UNCHANGED <<db, logs>>
          /\ ContentRaised(p, obs[p], "locked")
          /\ CommitRefused(p, tx[p] \o pending[p])
          /\ broken' = [broken EXCEPT ![p] = TRUE]
     ELSE /\ db' = Committed(db, tx[p] \o pending[p])
          /\ logs' = [logs EXCEPT ![log_id[p]] = CompletedLog(@, found_count[p], new_count[p])]
          /\ ContentReturned(p, found_count[p], new_count[p])
          /\ Release(p)
          /\ UNCHANGED broken
  /\ pending' = [pending EXCEPT ![p] = <<>>]
  /\ UNCHANGED <<kind, log_id, article_links, idx, cand, found_count, new_count, since, requests, passes, relevance,
                 xvars, fvars, lvars, svars, dvars, wvars>>

(***************************************************************************)
(* Specifications                                                          *)
(***************************************************************************)

\* Passes of several processes, interleaved statement by statement.
Next ==
  \E p \in Procs :
    \/ StartAdvanced(p)
    \/ FetchLanding(p)
    \/ ProcessArticle(p)
    \/ InsertArticle(p)
    \/ CommitAdvanced(p)
    \/ StartContent(p)
    \/ StartActive(p)
    \/ LogCommit(p)
    \/ ExtractContent(p)
    \/ SaveContent(p)
    \/ FinishContent(p)

\* Passes one after the other: a pass starts when no other is running.
AllIdle == \A q \in Procs : pc[q] = "idle"
StartAdvancedAlone(p) == AllIdle /\ StartAdvanced(p)
StartContentAlone(p) == AllIdle /\ StartContent(p)
StartActiveAlone(p) == AllIdle /\ StartActive(p)

NextSeq ==
  \E p \in Procs :
    \/ StartAdvancedAlone(p)
    \/ FetchLanding(p)
    \/ ProcessArticle(p)
    \/ InsertArticle(p)
    \/ CommitAdvanced(p)
    \/ StartContentAlone(p)
    \/ StartActiveAlone(p)
    \/ LogCommit(p)
    \/ ExtractContent(p)
    \/ SaveContent(p)
    \/ FinishContent(p)

\* Scraping cycles of the scheduler: a job starts when no other is running.
StartCycleAlone(p) == AllIdle /\ StartCycle(p)

NextCycle ==
  \E p \in Procs :
    \/ StartCycleAlone(p)
    \/ LogCommit(p)
    \/ ExtractContent(p)
    \/ SaveContent(p)
    \/ FinishContent(p)

vars == <<xvars, fvars, ovars, lvars, svars, dvars, wvars>>
Init == InitExtract /\ InitFilter /\ InitPasses /\ InitLinks /\ InitSoup /\ InitDriver /\ InitSave
SpecExtract == Init /\ [][NextExtract]_vars
SpecFilter == Init /\ [][NextFilter]_vars
SpecLinks == Init /\ [][NextLinks]_vars
SpecSoup == Init /\ [][NextSoup]_vars
SpecDriver == Init /\ [][NextDriver]_vars
SpecSave == Init /\ [][NextSave]_vars
Spec == Init /\ [][Next]_vars
SpecSeq == Init /\ [][NextSeq]_vars
SpecCycle == Init /\ [][NextCycle]_vars

\* A step of the pass of p that is under way.  The thread of a pass keeps
\* running: every request returns or fails within its timeout, and SQLite
\* gives up waiting for a lock after its busy timeout.
PassStep(p) ==
  \/ FetchLanding(p)
  \/ ProcessArticle(p)
  \/ InsertArticle(p)
  \/ CommitAdvanced(p)
  \/ LogCommit(p)
  \/ ExtractContent(p)
  \/ SaveContent(p)
  \/ FinishContent(p)
SpecFair == Spec /\ \A p \in Procs : WF_vars(PassStep(p))
SpecSeqFair == SpecSeq /\ \A p \in Procs : WF_vars(PassStep(p))

(***************************************************************************)
(* Properties of extract_with_multiple_methods (SpecExtract)               *)
(***************************************************************************)

\* The steps in which a method ran and returned (did not raise).
Produced == {i \in DOMAIN steps : steps[i].ran /\ ~steps[i].out.raised}

\* C5: the call never raises; it returns a string, the empty one when no
\* method that ran produced non-empty text; every method is reached, and
\* whether it is attempted depends only on its own condition, so that a
\* method that raised leaves the later ones to be attempted.
C5_NeverRaises ==
  /\ x_pc # "raised"
  /\ x_pc = "returned" =>
       /\ x_result \in STRING
       /\ (\A i \in Produced : steps[i].out.text = "") => x_result = ""
       /\ Len(steps) = 5
       /\ \A i \in DOMAIN steps :
            /\ steps[i].m = i
            /\ i \in {1, 2, 3} => steps[i].ran
            /\ i = 4 => (steps[i].ran <=> (use_selenium /\ steps[i].before < 500))
            /\ i = 5 => (steps[i].ran <=> steps[i].before < 300)
            /\ (steps[i].out.raised /\ i < 5) => steps[i + 1].before = steps[i].before

C5_Witness ==
  /\ x_pc = "returned"
  /\ \E i, j \in DOMAIN steps :
       /\ i < j
       /\ steps[i].ran /\ steps[i].out.raised
       /\ j \in Produced
       /\ x_result # ""
       /\ x_result = steps[j].out.text

\* What the methods reached so far did, as the argument of the function.
StepOutcomes == [m \in DOMAIN steps |-> steps[m].out]

\* C6: the returned text is the longest among the texts of the methods that
\* ran, the earliest of them when several have that length; best_score is
\* len(best_content) throughout and never decreases during the call.  (The
\* returned text is also the value of the call taken as a function.)
C6_LongestWins ==
  /\ [](/\ best_score = Len(best_content)
        /\ x_pc = "returned" =>
             /\ x_result = extract_with_multiple_methods(StepOutcomes, use_selenium)
             /\ \A i \in Produced : Len(steps[i].out.text) <= Len(x_result)
             /\ x_result # "" =>
                  \E i \in Produced :
                    /\ steps[i].out.text = x_result
                    /\ \A j \in Produced : j < i => Len(steps[j].out.text) < Len(x_result))
  /\ [][x_pc = "running" => best_score' >= best_score]_vars

C6_Witness ==
  /\ x_pc = "returned"
  /\ \E i, j \in Produced :
       /\ i < j
       /\ steps[i].out.text # steps[j].out.text
       /\ Len(steps[i].out.text) = Len(steps[j].out.text)
       /\ x_result = steps[i].out.text

\* C7: method 5 runs exactly when the best length after methods 1-4 is
\* below 300; when none of methods 1-4 produced 300 characters and method 5
\* returns at least 300, the call returns method 5's text.
C7_FallbackEscalation ==
  x_pc = "returned" =>
    /\ steps[5].ran => steps[5].before < 300
    /\ (\A i \in Produced : i < 5 => Len(steps[i].out.text) < 300) =>
         /\ steps[5].ran
         /\ (~steps[5].out.raised /\ Len(steps[5].out.text) >= 300) =>
              x_result = steps[5].out.text

C7_Witness ==
  /\ x_pc = "returned"
  /\ \E i \in Produced : i < 5 /\ steps[i].out.text # ""
  /\ 5 \in Produced
  /\ Len(steps[5].out.text) >= 300
  /\ x_result = steps[5].out.text

\* The best length after methods 1-3: the longest text one of them
\* returned, 0 when none returned one.
RECURSIVE LongestUpTo(_)
LongestUpTo(i) ==
  IF i = 0 THEN 0
  ELSE LET rest == LongestUpTo(i - 1)
           here == IF steps[i].ran /\ ~steps[i].out.raised THEN Len(steps[i].out.text) ELSE 0
       IN  IF here > rest THEN here ELSE rest

\* C19: method 4 is invoked exactly when the best length after methods 1-3
\* is below 500 and use_selenium is set; with use_selenium unset the call
\* constructs no browser driver and leaves self.driver as it was, and with a
\* best length of 500 or more method 4 is skipped.
C19_RenderedOnlyWhenEnabled ==
  /\ ~use_selenium => created = 0 /\ ~driver
  /\ Len(steps) >= 4 =>
       /\ steps[4].before = LongestUpTo(3)
       /\ steps[4].ran <=> (use_selenium /\ LongestUpTo(3) < 500)
       /\ LongestUpTo(3) >= 500 => ~steps[4].ran /\ created = 0
       /\ created > 0 => steps[4].ran
  /\ created <= 1

\* Rendered mode enabled, 499 characters or fewer after methods 1-3: method
\* 4 ran and constructed the driver.
C19_Witness ==
  /\ x_pc = "returned"
  /\ use_selenium
  /\ LongestUpTo(3) > 0
  /\ steps[4].ran
  /\ created = 1
  /\ driver

\* Rendered mode disabled and a best length below 500: method 4 skipped.
C19_DisabledCase ==
  /\ x_pc = "returned"
  /\ ~use_selenium
  /\ LongestUpTo(3) < 500
  /\ ~steps[4].ran
  /\ created = 0

(***************************************************************************)
(* Properties of is_relevant_content (SpecFilter)                          *)
(***************************************************************************)

\* The lower-cased combined text of the call matches a blacklist pattern.
MatchesBlacklist ==
  LET text == Lower(flt_title \o " " \o flt_content)
  IN  \E i \in DOMAIN blacklist_patterns : re_search(blacklist_patterns[i], text)

\* C8: a (title, content) whose lower-cased combined text matches a
\* blacklist pattern is rejected.
C8_BlacklistRejects ==
  (flt_pc = "done" /\ MatchesBlacklist) => flt_result = FALSE

\* The blacklisted call would have scored at least 6 and is long enough.
C8_Witness ==
  /\ flt_pc = "done"
  /\ Len(flt_content) >= 300
  /\ flt_result = FALSE
  /\ MatchesBlacklist
  /\ final_score(flt_title, flt_content) >= 6

KeywordPairs(text) ==
  UNION { { <<c, k>> : k \in {j \in DOMAIN FINANCIAL_KEYWORDS[c].keywords :
                                IsSubstr(FINANCIAL_KEYWORDS[c].keywords[j], text)} } :
          c \in DOMAIN FINANCIAL_KEYWORDS }

\* The generic financial terms that occur in text.
TermsIn(text) == {i \in DOMAIN basic_financial_terms : IsSubstr(basic_financial_terms[i], text)}

\* The quality patterns that match text.
PatternsIn(text) == {i \in DOMAIN quality_patterns : re_search(quality_patterns[i], text)}

\* C20: when the call is rejected neither for length nor by the blacklist,
\* final_score is the number of (category, keyword) pairs whose keyword
\* occurs in the lower-cased title + " " + content, plus the number of
\* generic terms occurring in that text, plus 2 for each generic term
\* occurring in the lower-cased title, plus the number of the four quality
\* patterns matching the text; quality_score is at most 4.
C20_FinalScoreFormula ==
  (flt_pc = "done" /\ Len(flt_content) >= 300 /\ ~MatchesBlacklist) =>
    LET text == Lower(flt_title \o " " \o flt_content)
    IN  /\ flt_score.relevance = Cardinality(KeywordPairs(text)) + Cardinality(TermsIn(text))
        /\ flt_score.title = 2 * Cardinality(TermsIn(Lower(flt_title)))
        /\ flt_score.quality = Cardinality(PatternsIn(text))
        /\ flt_score.quality <= 4
        /\ flt_score.final = Cardinality(KeywordPairs(text)) + Cardinality(TermsIn(text))
                               + 2 * Cardinality(TermsIn(Lower(flt_title)))
                               + Cardinality(PatternsIn(text))

\* Three generic terms in an upper-case title, three keywords, five generic
\* terms and two quality patterns in the text.
C20_Witness ==
  /\ flt_pc = "done"
  /\ flt_title = "CEO buys SHARES at a LOSS"
  /\ Cardinality(KeywordPairs(flt_text)) = 3
  /\ flt_score = [relevance |-> 8, title |-> 6, quality |-> 2, final |-> 16]

(***************************************************************************)
(* Properties of the passes                                                *)
(***************************************************************************)

\* The fingerprint the gate of scraper k computes.
HashOf(k, title, content) ==
  IF k = "advanced" THEN AdvancedHash(title, content) ELSE ContentHash(title, content)

\* The rows of a sequence that carry fingerprint h.
WithHash(rows, h) == {i \in DOMAIN rows : rows[i].content_hash = h}

NoTwoAlike(rows) ==
  \A i, j \in DOMAIN rows : i # j => rows[i].content_hash # rows[j].content_hash

\* C1: in every reachable state no two stored rows of scraped_contents have
\* the same content_hash, neither among the committed rows nor in what any
\* connection sees (the committed rows and its own uncommitted ones).
C1_UniqueFingerprint ==
  /\ NoTwoAlike(db)
  /\ \A p \in Procs : NoTwoAlike(db \o tx[p])

\* A row of ContentScraper is stored, and the INSERT of an AdvancedScraper
\* pass that had found no row with its fingerprint was refused as duplicate.
C1_Witness ==
  \E p \in Procs : \E i \in DOMAIN obs[p], j \in DOMAIN db :
    /\ kind[p] = "advanced"
    /\ obs[p][i].err = "integrity"
    /\ db[j].by = "content"
    /\ db[j].content_hash = AdvancedHash(obs[p][i].title, obs[p][i].content)

\* C2: when two passes have both brought the same (title, content) to the
\* gate of the same scraper, at most one stored row has its fingerprint,
\* however their SELECTs and INSERTs interleave.
C2_AtMostOnePerFingerprint ==
  \A p, q \in Procs :
    (p # q /\ kind[p] = kind[q]) =>
      \A i \in DOMAIN obs[p], j \in DOMAIN obs[q] :
        (/\ obs[p][i].gated /\ obs[q][j].gated
         /\ obs[p][i].title = obs[q][j].title
         /\ obs[p][i].content = obs[q][j].content) =>
          Cardinality(WithHash(db, HashOf(kind[p], obs[p][i].title, obs[p][i].content))) <= 1

\* Two AdvancedScraper passes both found no row in their SELECT for the same
\* pair, both have ended, and one row is stored: the INSERT of one pass went
\* through and the other's was refused by the UNIQUE constraint.
C2_Witness ==
  \E p, q \in Procs :
    /\ p # q /\ kind[p] = "advanced" /\ kind[q] = "advanced"
    /\ pc[p] = "idle" /\ pc[q] = "idle"
    /\ \E i \in DOMAIN obs[p], j \in DOMAIN obs[q] :
         /\ obs[p][i].gated /\ obs[q][j].gated
         /\ obs[p][i].title = obs[q][j].title /\ obs[p][i].content = obs[q][j].content
         /\ ~obs[p][i].seen /\ ~obs[q][j].seen
         /\ obs[p][i].stored /\ obs[q][j].err = "integrity"
         /\ Cardinality(WithHash(db, AdvancedHash(obs[p][i].title, obs[p][i].content))) = 1

\* Entry i of o and entry j of o2 bring the same (title, content) to the gate.
SamePair(o, i, o2, j) ==
  /\ o[i].gated /\ o2[j].gated
  /\ o[i].title = o2[j].title
  /\ o[i].content = o2[j].content

\* C3: in passes run one after the other, a (title, content) brought to the
\* gate is stored (and counted as new) exactly when no row has its
\* fingerprint yet; brought again, later in the pass or in the next pass of
\* the same scraper, it is not stored; and exactly one row has its
\* fingerprint afterwards.
C3_GateIdempotent ==
  \A p \in Procs :
    /\ \A i \in DOMAIN obs[p] :
         obs[p][i].gated =>
           /\ obs[p][i].stored <=> ~obs[p][i].seen
           /\ obs[p][i].err = ""
           /\ Cardinality(WithHash(db \o tx[p] \o pending[p],
                                   HashOf(kind[p], obs[p][i].title, obs[p][i].content))) = 1
           /\ \A j \in DOMAIN obs[p] : (i < j /\ SamePair(obs[p], i, obs[p], j)) => ~obs[p][j].stored
    /\ (pc[p] # "idle" /\ last.kind = kind[p]) =>
         \A i \in DOMAIN last.obs, j \in DOMAIN obs[p] :
           SamePair(last.obs, i, obs[p], j) => ~obs[p][j].stored

\* A pair was stored and met again in the same pass, and the next pass of
\* the same scraper meets it a third time; one row has its fingerprint.
C3_Witness ==
  \E p \in Procs :
    /\ pc[p] # "idle" /\ last.kind = kind[p]
    /\ \E i, j \in DOMAIN last.obs, k \in DOMAIN obs[p] :
         /\ i < j
         /\ SamePair(last.obs, i, last.obs, j)
         /\ SamePair(last.obs, i, obs[p], k)
         /\ last.obs[i].stored /\ ~last.obs[j].stored /\ ~obs[p][k].stored
         /\ Cardinality(WithHash(db, HashOf(kind[p], obs[p][k].title, obs[p][k].content))) = 1

\* C4: in passes run one after the other, a pass that ends having met the
\* same landing pages and the same (title, content) for every article as
\* the pass before it (same scraper, same target) reports new = 0 and
\* leaves the stored rows as they were after that pass.
C4_SecondPassNothingNew ==
  [][\A p \in Procs :
       (/\ pc[p] # "idle" /\ pc'[p] = "idle"
        /\ last.kind = kind[p]
        /\ kind[p] = "content" => last.tgt = tgt[p]
        /\ Inputs(last.obs) = Inputs(obs'[p])) =>
         /\ db' = db
         /\ last'.new = 0
         /\ \A i \in DOMAIN results'[p] :
              "new" \in DOMAIN results'[p][i] => results'[p][i].new = 0]_vars

\* A second AdvancedScraper pass has ended that met what the first had met,
\* the first having stored rows.
C4_Witness ==
  /\ AllIdle
  /\ last.kind = "advanced"
  /\ last.repeat
  /\ last.new = 0
  /\ \E i \in DOMAIN last.obs : last.obs[i].gated /\ last.obs[i].seen
  /\ \E i \in DOMAIN db : db[i].by = "advanced"

\* C10: is_relevant_content accepts no content shorter than 300 characters,
\* whatever the length of the title, and every row AdvancedScraper stores
\* has a content of at least 300 characters.
C10_AcceptedIsLong ==
  /\ \A pair \in DOMAIN relevance : relevance[pair] => Len(pair[2]) >= 300
  /\ \A p \in Procs :
       /\ \A i \in DOMAIN obs[p] :
            (kind[p] = "advanced" /\ obs[p][i].gated) => Len(obs[p][i].content) >= 300
       /\ \A i \in DOMAIN (db \o tx[p]) :
            (db \o tx[p])[i].by = "advanced" => Len((db \o tx[p])[i].content) >= 300

\* A row of AdvancedScraper is stored, and an article of 299 characters was
\* skipped whose title and content together have 300 or more.
C10_Witness ==
  /\ \E i \in DOMAIN db : db[i].by = "advanced"
  /\ \E p \in Procs : \E i \in DOMAIN obs[p] :
       /\ kind[p] = "advanced"
       /\ obs[p][i].ev = "article"
       /\ ~obs[p][i].gated
       /\ Len(obs[p][i].content) = 299
       /\ Len(obs[p][i].title) + 1 + Len(obs[p][i].content) >= 300

(***************************************************************************)
(* Properties of _extract_article_links (SpecLinks)                        *)
(***************************************************************************)

\* The elements of selector s the loop looks at.
Looked(s) == 1..Min(Len(lnk_page[s]), MaxElements)
\* The selectors with at least one accepted element among those.
Yielding == {s \in DOMAIN lnk_page : \E i \in Looked(s) : Accepts(lnk_page[s][i], BaseUrl)}
\* The links accepted under selector s.
AcceptedUnder(s) ==
  {LinkOf(lnk_page[s][i], BaseUrl) : i \in {j \in Looked(s) : Accepts(lnk_page[s][j], BaseUrl)}}

\* C11: the returned links are those accepted under the first selector that
\* yields an accepted link, one per URL, and none from a later selector;
\* selectors before it that matched or accepted nothing cause no error; with
\* no yielding selector the list is empty.
C11_FirstSelectorWins ==
  /\ lnk_pc \in {"idle", "select", "dedup", "returned"}
  /\ lnk_pc = "returned" =>
       /\ lnk_result = extract_article_links(lnk_page, BaseUrl)
       /\ IF Yielding = {} THEN lnk_result = <<>>
          ELSE LET w == CHOOSE s \in Yielding : \A t \in Yielding : s <= t
               IN  /\ \A k \in DOMAIN lnk_result : lnk_result[k] \in AcceptedUnder(w)
                   /\ {lnk_result[k].url : k \in DOMAIN lnk_result}
                        = {l.url : l \in AcceptedUnder(w)}
                   /\ Len(lnk_result) = Cardinality({l.url : l \in AcceptedUnder(w)})

\* Selector A matches nothing, selector B has three accepted matches, a
\* third selector has matches too: exactly B's three links are returned.
C11_Witness ==
  /\ lnk_pc = "returned"
  /\ lnk_page = <<<<>>, ThreeStories, Repeats>>
  /\ lnk_result = << Link(Title10, "https://www.npr.org/story-1"),
                     Link(Title200, "https://www.npr.org/story-2"),
                     Link(TitleFed, "https://www.npr.org/sections/business/story-3") >>

\* The positions of links whose URL no earlier position has.
FirstSeen == {i \in DOMAIN lnk_links : \A j \in 1..(i - 1) : lnk_links[j].url # lnk_links[i].url}

\* C12: no two returned entries have the same URL; the entries are the
\* first-seen link of each URL, in the order in which they were first seen.
C12_UniqueUrlsFirstSeen ==
  lnk_pc = "returned" =>
    /\ \A j, k \in DOMAIN lnk_result : j # k => lnk_result[j].url # lnk_result[k].url
    /\ Len(lnk_result) = Cardinality(FirstSeen)
    /\ \A k \in DOMAIN lnk_result :
         \E i \in FirstSeen : /\ Cardinality({j \in FirstSeen : j <= i}) = k
                              /\ lnk_result[k] = lnk_links[i]

\* A URL was met again under another title, relative and absolute: the
\* entry first seen is the one returned.
C12_Witness ==
  /\ lnk_pc = "returned"
  /\ Len(lnk_result) < Len(lnk_links)
  /\ \E i, j \in DOMAIN lnk_links :
       /\ i < j
       /\ lnk_links[i].url = lnk_links[j].url
       /\ lnk_links[i].title # lnk_links[j].title
       /\ \E k \in DOMAIN lnk_result : lnk_result[k] = lnk_links[i]
  /\ \E k \in DOMAIN lnk_result : k > 1 /\ lnk_result[k].url # lnk_result[1].url

\* C13: every returned title has between 10 and 200 characters; of the
\* elements looked at under the selectors that were tried, one with a
\* title of 9 or 201 characters gives no link and one with a title of 10 to
\* 200 characters, an <a> and a valid href has its URL returned.
C13_TitleLengthBounds ==
  lnk_pc = "returned" =>
    /\ \A k \in DOMAIN lnk_result :
         Len(lnk_result[k].title) >= 10 /\ Len(lnk_result[k].title) <= 200
    /\ \A s \in 1..lnk_sel : \A i \in Looked(s) :
         LET e == lnk_page[s][i]
         IN  /\ (Len(e.title) = 9 \/ Len(e.title) = 201) =>
                  \A k \in DOMAIN lnk_result : lnk_result[k].title # e.title
             /\ (e.anchor /\ ValidHref(e, BaseUrl) /\ Len(e.title) >= 10 /\ Len(e.title) <= 200) =>
                  \E k \in DOMAIN lnk_result : lnk_result[k].url = urljoin(BaseUrl, e.href.s)

\* The winning selector matched titles of 9, 10, 200 and 201 characters:
\* the two in the middle are returned.
C13_Witness ==
  /\ lnk_pc = "returned"
  /\ lnk_page[lnk_sel] = Bounds
  /\ lnk_result = << Link(Title10, "https://www.npr.org/story-9"),
                     Link(Title200, "https://www.npr.org/story-10") >>

(***************************************************************************)
(* Properties of the passes over the targets (SpecSeq)                     *)
(***************************************************************************)

\* The landing pages or item lists a pass met, one per target, in order.
LandingsMet(o) == SelectSeq(o, LAMBDA e : e.ev = "landing")

\* {status: failed, error, found: 0, new: 0}
IsFailedWithCounts(r) ==
  /\ r.status = "failed"
  /\ DOMAIN r = {"target", "status", "error", "found", "new"}
  /\ r.found = 0
  /\ r.new = 0

\* In the passes of scraper k: a target whose fetch raised or that gave no
\* links has the failed result with its counts, the pass does not raise,
\* and a returned pass has one result for every target.
FailureIsolated(k) ==
  \A p \in Procs :
    kind[p] = k =>
      /\ outcome[p] # "raised"
      /\ (pc[p] = "idle" /\ outcome[p] = "returned") => Len(results[p]) = Len(Targets)
      /\ \A i \in DOMAIN results[p] :
           LET l == LandingsMet(obs[p])[i]
           IN  (~l.ok \/ l.links = <<>>) => IsFailedWithCounts(results[p][i])

\* AdvancedScraper.scrape_all_targets isolates the failure of a target.
C14_AdvancedIsolated == FailureIsolated("advanced")

\* C14: in every pass over the targets (AdvancedScraper.scrape_all_targets,
\* ContentScraper.scrape_all_active_targets), a target whose landing-page
\* fetch raises or whose link discovery returns nothing gets the result
\* {status: failed, error, found: 0, new: 0}, the pass does not raise and
\* every later target is still processed.
C14_TargetFailureIsolated == FailureIsolated("advanced") /\ FailureIsolated("active")

\* The rows p can see or has pending.
RowsOf(p) == db \o tx[p] \o pending[p]

\* In the passes of scraper k: two articles brought to the gate in a pass
\* with the same content and different titles have different fingerprints,
\* and each fingerprint has a stored row of its own.
TitleInFingerprint(k) ==
  \A p \in Procs :
    kind[p] = k =>
      \A i, j \in DOMAIN obs[p] :
        (/\ i < j
         /\ obs[p][i].gated /\ obs[p][j].gated
         /\ obs[p][i].err = "" /\ obs[p][j].err = ""
         /\ obs[p][i].content = obs[p][j].content
         /\ obs[p][i].title # obs[p][j].title) =>
          /\ HashOf(k, obs[p][i].title, obs[p][i].content)
               # HashOf(k, obs[p][j].title, obs[p][j].content)
          /\ \E m, n \in DOMAIN RowsOf(p) :
               /\ m # n
               /\ RowsOf(p)[m].content_hash = HashOf(k, obs[p][i].title, obs[p][i].content)
               /\ RowsOf(p)[n].content_hash = HashOf(k, obs[p][j].title, obs[p][j].content)

\* AdvancedScraper._scrape_target fingerprints the title with the content.
C15_AdvancedCoversTitle == TitleInFingerprint("advanced")

\* An AdvancedScraper pass stored two articles with one body under two titles.
C15_AdvancedCase ==
  \E p \in Procs : \E i, j \in DOMAIN obs[p] :
    /\ kind[p] = "advanced" /\ i < j
    /\ obs[p][i].stored /\ obs[p][j].stored
    /\ obs[p][i].content = obs[p][j].content
    /\ obs[p][i].title # obs[p][j].title

\* C15: the fingerprint of the gate covers the title and the content in
\* every scraper that writes rows (AdvancedScraper._scrape_target,
\* ContentScraper._save_content): two accepted articles with the same body
\* and different titles have different fingerprints and are both stored.
C15_FingerprintCoversTitle ==
  /\ TitleInFingerprint("advanced")
  /\ TitleInFingerprint("content")
  /\ TitleInFingerprint("active")

(***************************************************************************)
(* Properties of the passes under interleaving (Spec)                      *)
(***************************************************************************)

\* The positions of the landing entries of o, and the i-th of them.
LandingPos(o) == {k \in DOMAIN o : o[k].ev = "landing"}
NthLanding(o, i) == CHOOSE k \in LandingPos(o) : Cardinality({j \in LandingPos(o) : j <= k}) = i
\* The article entries of the i-th target of o.
ArticlesOf(o, i) ==
  SubSeq(o, NthLanding(o, i) + 1,
         IF i < Cardinality(LandingPos(o)) THEN NthLanding(o, i + 1) - 1 ELSE Len(o))

\* C16: in every AdvancedScraper pass, whatever exceptions the articles of
\* a target met (an INSERT refused as locked or as a duplicate), every
\* discovered link within the cap was processed, in order, and the result
\* of the target has status success, found = the number of discovered links
\* and new = the number of articles stored.
C16_CandidateFailureIsolated ==
  \A p \in Procs :
    kind[p] = "advanced" =>
      \A i \in DOMAIN results[p] :
        LET l == obs[p][NthLanding(obs[p], i)]
            arts == ArticlesOf(obs[p], i)
        IN  (l.ok /\ l.links # <<>>) =>
              /\ results[p][i].status = "success"
              /\ results[p][i].found = Len(l.links)
              /\ Len(arts) = (IF Len(l.links) < 3 THEN Len(l.links) ELSE 3)
              /\ \A k \in DOMAIN arts : arts[k].title = l.links[k].title
              /\ results[p][i].new = Cardinality({k \in DOMAIN arts : arts[k].stored})

\* The first article of a target raised on its INSERT, the articles after
\* it were processed and one of them was stored; the target succeeded.
C16_Witness ==
  \E p \in Procs : \E i \in DOMAIN results[p] :
    /\ kind[p] = "advanced"
    /\ results[p][i].status = "success"
    /\ results[p][i].new > 0
    /\ LET arts == ArticlesOf(obs[p], i)
       IN  /\ Len(arts) = 3
           /\ arts[1].err # ""
           /\ \E k \in 2..3 : arts[k].stored

\* C17: in an AdvancedScraper pass, every page request after the first
\* (the landing page of a target, each article) is made with adaptive_delay
\* run since the request before it, whatever became of the article before:
\* skipped as too short, rejected by the filter, a duplicate, an exception.
C17_DelayBetweenRequests ==
  [][\A p \in Procs :
       (requests'[p] > requests[p] /\ requests[p] > 0) => since[p] = "delay"]_vars

\* adaptive_delay separates the requests that follow a stored article and
\* those that follow the end of a target.
C17_DelayAfterStoreOrTarget ==
  [][\A p \in Procs :
       (/\ requests'[p] > requests[p] /\ requests[p] > 0
        /\ \/ pc[p] = "landing"
           \/ obs[p][Len(obs[p])].stored) => since[p] = "delay"]_vars

(***************************************************************************)
(* Properties of _extract_content_from_soup (SpecSoup)                     *)
(***************************************************************************)

\* The paragraph branch is entered exactly when the longest selector text
\* is below 500 characters, and a selector text of 500 or more is returned
\* as it is.
C18_ParagraphsBelow500 ==
  sp_pc = "returned" =>
    /\ sp_result = extract_content_from_soup(sp_texts, sp_paras)
    /\ sp_tried <=> sp_best_length < 500
    /\ sp_best_length >= 500 => sp_result = LongestFrom(sp_texts, 1, "")

\* C18: the paragraph branch of _extract_content_from_soup is entered only
\* when the longest text of the body-content selectors is below 300
\* characters; a selector text of 300 characters or more is returned as it
\* is, even when the joined paragraphs of more than 30 characters are longer.
C18_ParagraphsBelow300 ==
  sp_pc = "returned" =>
    /\ sp_tried => sp_best_length < 300
    /\ sp_best_length >= 300 => sp_result = LongestFrom(sp_texts, 1, "")

(***************************************************************************)
(* Properties of the cap on articles per target (SpecSeq)                  *)
(***************************************************************************)

\* The article entries of obs that follow its last landing entry.
SinceLanding(o) ==
  IF LandingPos(o) = {} THEN <<>>
  ELSE SubSeq(o, NthLanding(o, Cardinality(LandingPos(o))) + 1, Len(o))

\* C21: at every moment of an AdvancedScraper pass the loop over the links
\* of a target is within the first 3 of them, the articles extracted so far
\* for the target are its first links in discovery order, and every target
\* result has new <= found and new <= 3.
C21_AtMostThreePerTarget ==
  \A p \in Procs :
    kind[p] = "advanced" =>
      /\ pc[p] \in {"article", "insert"} =>
           /\ idx[p] <= 3
           /\ idx[p] <= Len(article_links[p])
           /\ Len(SinceLanding(obs[p])) \in {idx[p] - 1, idx[p]}
           /\ \A k \in DOMAIN SinceLanding(obs[p]) :
                SinceLanding(obs[p])[k].title = article_links[p][k].title
      /\ \A i \in DOMAIN results[p] :
           /\ results[p][i].new <= results[p][i].found
           /\ results[p][i].new <= 3
           /\ Len(ArticlesOf(obs[p], i)) <= 3
           /\ Len(ArticlesOf(obs[p], i)) <= results[p][i].found

\* Four links were discovered; three articles were extracted and two stored.
C21_Witness ==
  \E p \in Procs : \E i \in DOMAIN results[p] :
    /\ kind[p] = "advanced"
    /\ results[p][i].found = 4
    /\ results[p][i].new = 2
    /\ Len(ArticlesOf(obs[p], i)) = 3

(***************************************************************************)
(* Properties of scrape_all_targets as a whole (SpecSeqFair)               *)
(***************************************************************************)

RECURSIVE SumFound(_, _)
SumFound(rs, i) == IF i > Len(rs) THEN 0 ELSE rs[i].found + SumFound(rs, i + 1)
RECURSIVE SumNew(_, _)
SumNew(rs, i) == IF i > Len(rs) THEN 0 ELSE rs[i].new + SumNew(rs, i + 1)

\* The summary of the AdvancedScraper pass of p so far: one result per
\* target gone through, in configuration order; the totals are the sums of
\* the results; one landing page request per target and one request per
\* article entry, each article entry being the next link of its target.
SummaryInStep(p) ==
  /\ Len(results[p]) <= Len(Targets)
  /\ \A i \in DOMAIN results[p] : results[p][i].target = Targets[i]
  /\ totals[p].found = SumFound(results[p], 1)
  /\ totals[p].new = SumNew(results[p], 1)
  /\ Cardinality(LandingPos(obs[p])) =
       Len(results[p]) + (IF pc[p] \in {"article", "insert"} THEN 1 ELSE 0)
  /\ requests[p] = Len(obs[p]) + (IF pc[p] = "insert" THEN 1 ELSE 0)
  /\ \A i \in 1..Cardinality(LandingPos(obs[p])) :
       LET l == obs[p][NthLanding(obs[p], i)]
           arts == ArticlesOf(obs[p], i)
       IN  /\ Len(arts) <= Len(l.links)
           /\ \A k \in DOMAIN arts : arts[k].title = l.links[k].title
  /\ (pc[p] = "idle" /\ outcome[p] = "returned") => Len(results[p]) = Len(Targets)

C22_TerminatesInterleaved ==
  /\ [](\A p \in Procs : kind[p] = "advanced" => SummaryInStep(p))
  /\ \A p \in Procs :
       (kind[p] = "advanced" /\ pc[p] # "idle")
         ~> (kind[p] = "advanced" /\ pc[p] = "idle" /\ outcome[p] \in {"returned", "raised"})

(***************************************************************************)
(* Properties of the browser driver of a scraper (SpecDriver)              *)
(***************************************************************************)

\* The instances constructed and not quit.
LiveDrivers == (1..dl_made) \ dl_quit

\* C23: a scraper holds at most one driver that has not been quit, and it
\* is the one in self.driver; _get_selenium_driver constructs a driver only
\* when self.driver is None and otherwise returns the instance stored, the
\* same on every call until close; when close returns, the driver it found
\* has been quit, self.driver is None and the session is closed, whether
\* or not there was a driver; the next _get_selenium_driver that returns
\* gives an instance constructed after that close.
C23_DriverLifecycle ==
  /\ Cardinality(LiveDrivers) <= 1
  /\ LiveDrivers = (IF dl_handle = 0 THEN {} ELSE {dl_handle})
  /\ \A i \in DOMAIN dl_log :
       LET e == dl_log[i]
       IN  /\ (e.op = "get" /\ e.before # 0) => e.ret = e.before
           /\ (e.op = "get" /\ e.returned /\ e.before = 0) =>
                \A j \in 1..(i - 1) : dl_log[j].ret # e.ret
           /\ (e.op = "close" /\ e.returned) =>
                /\ e.before # 0 => e.before \in dl_quit
                /\ i = Len(dl_log) => dl_handle = 0 /\ dl_session = "closed"
                /\ \A j \in (i + 1)..Len(dl_log) :
                     (dl_log[j].op = "get" /\ dl_log[j].returned) => dl_log[j].ret > e.before
  /\ \A i, j \in DOMAIN dl_log :
       (/\ i < j
        /\ dl_log[i].op = "get" /\ dl_log[i].returned
        /\ dl_log[j].op = "get" /\ dl_log[j].returned
        /\ \A k \in i..j : dl_log[k].op # "close" \/ ~dl_log[k].returned)
       => dl_log[i].ret = dl_log[j].ret

\* Two calls gave the same driver, close quit it, a later call gave a
\* fresh one; and a close with no driver.
C23_Witness ==
  /\ Len(dl_log) = 5
  /\ dl_log[1] = GotDriver(0, 1)
  /\ dl_log[2] = GotDriver(1, 1)
  /\ dl_log[3] = Closed(1, TRUE)
  /\ dl_log[4] = Closed(0, TRUE)
  /\ dl_log[5] = GotDriver(0, 2)
  /\ dl_quit = {1}

(***************************************************************************)
(* Properties of the scraping logs (Spec)                                  *)
(***************************************************************************)

\* The call of scrape_target that created row i of logs is under way.
InCall(i) ==
  LET p == logs[i].by
  IN  log_id[p] = i /\ pc[p] \in {"extract", "save", "finish"}

\* scraping_logs is append-only and a finalized log is never changed: it
\* does not go back to 'running'.
C24_FinalizedStays ==
  [][/\ Len(logs') >= Len(logs)
     /\ \A i \in DOMAIN logs :
          /\ logs[i].status # "running" => logs'[i] = logs[i]
          /\ logs'[i].status # logs[i].status =>
               /\ logs'[i].status \in {"completed", "failed"}
               /\ logs'[i].finished
               /\ logs'[i].status = "failed" => logs'[i].error_message # ""]_vars

\* C24: a log that scrape_target created with status 'running' is finalized
\* by the time the call has returned or raised: a log whose call is over has
\* status 'completed' or 'failed' and finished_at set, a failed one with its
\* error_message.
C24_LogFinalizedAtExit ==
  \A i \in DOMAIN logs :
    ~InCall(i) =>
      /\ logs[i].status \in {"completed", "failed"}
      /\ logs[i].finished
      /\ logs[i].status = "failed" => logs[i].error_message # ""

\* Row i of logs is finalized in the step.
Finalizes(i) == logs[i].status = "running" /\ logs'[i].status # "running"

TargetsTellApart(k) ==
  \A i, j \in DOMAIN db :
    (db[i].by = k /\ db[j].by = k /\ db[i].src # db[j].src) => db[i].target_id # db[j].target_id

\* ContentScraper stores target.id.
C26_ContentTellsApart == TargetsTellApart("content")

C26_ContentCase ==
  \E i, j \in DOMAIN db : db[i].by = "content" /\ db[j].by = "content" /\ db[i].src # db[j].src

\* C26: every stored row carries a target reference that identifies the
\* target whose landing page produced it: rows stored while processing two
\* different targets have two different target_id, for AdvancedScraper and
\* for ContentScraper.
C26_TargetReferenceIdentifies == TargetsTellApart("advanced") /\ TargetsTellApart("content")

(***************************************************************************)
(* Properties of save_to_database (SpecSave)                               *)
(***************************************************************************)

\* The rows of the table that hold title and content.
SavedFor(title, content) ==
  {k \in DOMAIN sv_rows : sv_rows[k].title = title /\ sv_rows[k].content = content}

\* What the call does: a row per call that returned True, none for the
\* others, and no row with a content_hash.
C27_RowPerCall ==
  /\ Len(sv_rows) = Cardinality({i \in DOMAIN sv_calls : sv_calls[i].ret})
  /\ \A k \in DOMAIN sv_rows : sv_rows[k].content_hash = Null
  /\ \A i \in DOMAIN sv_calls : sv_calls[i].ret <=> sv_schema = "wide"

\* C27: save_to_database inserts a record if its content_hash is absent
\* and does nothing otherwise: with a database file in place, after two
\* calls with the same title and content the table holds exactly one row
\* for the pair, and the row carries the fingerprint of title + content.
C27_InsertIfAbsent ==
  \A i, j \in DOMAIN sv_calls :
    (sv_schema # "missing" /\ i < j /\ sv_calls[i].title = sv_calls[j].title /\ sv_calls[i].content = sv_calls[j].content) =>
      /\ Cardinality(SavedFor(sv_calls[i].title, sv_calls[i].content)) = 1
      /\ \A k \in SavedFor(sv_calls[i].title, sv_calls[i].content) :
           sv_rows[k].content_hash = AdvancedHash(sv_calls[i].title, sv_calls[i].content)

(***************************************************************************)
(* Frame of the passes on scraped_contents (Spec)                          *)
(***************************************************************************)

\* The step of p adds the article entry e to its observations.
Observes(p, e) == obs'[p] = Append(obs[p], e) /\ e.ev = "article"

\* C28: no step changes or removes a committed row, the table only grows;
\* the step that skips a candidate (text under 100 characters, filter
\* rejection, duplicate fingerprint, exception at the insert) leaves the
\* committed rows as they are, and those the pass has written so far too
\* unless the exception rolls ContentScraper's session back.
C28_SkipLeavesStorage ==
  [][/\ Len(db') >= Len(db)
     /\ SubSeq(db', 1, Len(db)) = db
     /\ \A p \in Procs :
          (Len(obs'[p]) = Len(obs[p]) + 1 /\ Observes(p, obs'[p][Len(obs'[p])])
             /\ ~obs'[p][Len(obs'[p])].stored) =>
            /\ db' = db
            /\ kind[p] = "advanced" => tx'[p] = tx[p]
            /\ (kind[p] # "advanced" /\ obs'[p][Len(obs'[p])].err = "") =>
                 tx'[p] \o pending'[p] = tx[p] \o pending[p]]_vars

\* With rows committed before, a pass wrote a row and then skipped two
\* candidates: one that did not reach the duplicate check and a duplicate.
C28_Witness ==
  \E p \in Procs : \E i, j, k \in DOMAIN obs[p] :
    /\ db # <<>>
    /\ pc[p] # "idle"
    /\ i < j /\ i < k
    /\ obs[p][i].ev = "article" /\ obs[p][i].stored
    /\ obs[p][j].ev = "article" /\ ~obs[p][j].gated
    /\ obs[p][k].ev = "article" /\ obs[p][k].seen

\* An INSERT that raised after the pass had written a row.
C28_ExceptionCase ==
  \E p \in Procs : \E i, k \in DOMAIN obs[p] :
    /\ i < k
    /\ obs[p][i].ev = "article" /\ obs[p][i].stored
    /\ obs[p][k].ev = "article" /\ obs[p][k].err # ""

(***************************************************************************)
(* Properties of the fingerprint of AdvancedScraper (SpecSeq)              *)
(***************************************************************************)

\* C29: AdvancedScraper._scrape_target never takes two accepted candidates
\* with different (title, content) for duplicates of each other: a
\* candidate that reached the duplicate check shares its fingerprint with
\* no row AdvancedScraper stored for another (title, content).
C29_DistinctPairsDistinctFingerprints ==
  \A p \in Procs :
    kind[p] = "advanced" =>
      \A k \in DOMAIN obs[p] :
        (obs[p][k].ev = "article" /\ obs[p][k].gated) =>
          \A r \in DOMAIN (db \o tx[p]) :
            LET row == (db \o tx[p])[r]
            IN  (row.by = "advanced"
                   /\ <<row.title, row.content>> # <<obs[p][k].title, obs[p][k].content>>)
                => row.content_hash # AdvancedHash(obs[p][k].title, obs[p][k].content)

(***************************************************************************)
(* Properties of the scraping cycle of the scheduler (SpecCycle)           *)
(***************************************************************************)

\* The items the calls of scrape_target that returned have found, and stored.
RECURSIVE ItemsFound(_, _)
ItemsFound(rs, i) ==
  IF i > Len(rs) THEN 0
  ELSE (IF rs[i].status = "success" THEN rs[i].found ELSE 0) + ItemsFound(rs, i + 1)
RECURSIVE ItemsNew(_, _)
ItemsNew(rs, i) ==
  IF i > Len(rs) THEN 0
  ELSE (IF rs[i].status = "success" THEN rs[i].new ELSE 0) + ItemsNew(rs, i + 1)
RECURSIVE CallsReturned(_, _)
CallsReturned(rs, i) ==
  IF i > Len(rs) THEN 0
  ELSE (IF rs[i].status = "success" THEN 1 ELSE 0) + CallsReturned(rs, i + 1)

\* _scrape_financial_sources goes through every active target whether or
\* not scrape_target raises, and a target whose scrape raised adds nothing:
\* the count is two for each call that returned.
C30_TwoPerReturnedTarget ==
  \A p \in Procs :
    kind[p] = "cycle" =>
      /\ total_scraped[p] = 2 * CallsReturned(results[p], 1)
      /\ (pc[p] = "idle" /\ outcome[p] # "none") =>
            /\ outcome[p] = "returned"
            /\ Len(results[p]) = Len(Targets)

\* C30: the count _scrape_financial_sources returns is the number of items
\* scraped over the active targets of the cycle: the sum of the items the
\* calls of scrape_target that did not raise found (or, counting only what
\* was stored, of their new items); a target whose scrape raised adds 0 and
\* the targets after it are still scraped.
C30_CountIsItemsScraped ==
  \A p \in Procs :
    (kind[p] = "cycle" /\ pc[p] = "idle" /\ outcome[p] = "returned") =>
      /\ Len(results[p]) = Len(Targets)
      /\ \/ total_scraped[p] = ItemsFound(results[p], 1)
         \/ total_scraped[p] = ItemsNew(results[p], 1)

\* A cycle in which a scrape raised and a later one returned.
C30_FailureCase ==
  \E p \in Procs : \E i, j \in DOMAIN results[p] :
    /\ kind[p] = "cycle" /\ pc[p] = "idle" /\ outcome[p] = "returned"
    /\ i < j
    /\ results[p][i].status = "failed"
    /\ results[p][j].status = "success"

====
